---------------------------- MODULE Spec2Model ----------------------------
(***************************************************************************)
(* A model of the translation analyzer (src/src/analyzer.ts) and of the    *)
(* mock-props generator (src/src/prop-generator.ts).                       *)
(*                                                                         *)
(* Syntax trees are records [kind, text, line, col, kids]: kind is the     *)
(* ts.SyntaxKind name, text the node's name / tag / literal text ("" when  *)
(* the node has none), line and col the 0-based result of                  *)
(* getLineAndCharacterOfPosition(node.getStart()), kids the children in    *)
(* the order ts.forEachChild visits them.                                  *)
(***************************************************************************)
EXTENDS Integers, Sequences, FiniteSets, TLC

VARIABLES
    files,            \* the files of the program: each a fileName and its text
    pc,               \* position inside analyzeProject
    idx,              \* index of the running for-loop (265 or 290)
    allUsages,        \* analyzer.ts:262
    components,       \* analyzer.ts:263
    keyToComponents,  \* analyzer.ts:287
    componentToKeys,  \* analyzer.ts:288
    result,           \* what analyzeProject returned, or that it threw
    \* loadCache (analyzer.ts:318)
    cacheFile,        \* the cache file on disk
    loadPc,           \* position inside loadCache
    fileExists,       \* what file.exists() answered, once asked
    cache,            \* analyzer.ts:324, once assigned
    caught,           \* the error the catch block logged, if any
    loaded,           \* what loadCache returned
    \* generateProps (prop-generator.ts:29)
    program,          \* the parsed file and the interface name it is given
    genPc,            \* position inside generateProps
    stmtIdx,          \* the statement visit() is at
    memberIdx,        \* the member of the interface the loop is at
    props,            \* prop-generator.ts:34
    enumMetadata,     \* prop-generator.ts:35
    copies,           \* the objects of the two elements of the last array built
    generated,        \* what generateProps returned
    serialized,       \* what serializeProps returned for it
    deserialized,     \* what deserializeProps returned for that
    \* /api/component-props and the file watcher (server.ts:320, :119)
    disk,             \* the files a module specifier may resolve to
    componentImport,  \* the module specifier in the component's file
    changes,          \* how many times a file was changed
    pending,          \* change notifications not yet delivered
    scanning,         \* watcher callbacks between propsCache.clear() and their end
    sourceFileCache,  \* prop-generator.ts:7
    propsCache,       \* server.ts:18
    resolvedPath,     \* what resolveImportPath returned to the last request
    importedSourceFile, \* what loadSourceFile returned to the last request
    response,         \* the body of the last response
    \* the running server (server.ts:16, :42, :119, :393)
    sourceTree,       \* the contents of the watched source directory
    startPc,          \* position inside start()
    analysisCache,    \* server.ts:16
    tasks,            \* the watcher callbacks and refresh handlers begun so far
    requests,         \* the /api/component-props handlers awaiting their props
    clock,            \* Date.now()
    finished          \* what the finished calls of analyzeProject and loadCache returned

scanVars == <<files, pc, idx, allUsages, components, keyToComponents,
              componentToKeys, result>>
cacheVars == <<cacheFile, loadPc, fileExists, cache, caught, loaded>>
propsVars == <<program, genPc, stmtIdx, memberIdx, props, enumMetadata,
               copies, generated, serialized, deserialized>>
serverVars == <<disk, componentImport, changes, pending, scanning,
                sourceFileCache, propsCache, resolvedPath, importedSourceFile,
                response>>
liveVars == <<sourceTree, startPc, analysisCache, tasks, requests, clock,
              finished>>
vars == <<scanVars, cacheVars, propsVars, serverVars, liveVars>>

\* the promise an async function returns: pending, resolved or rejected
Pending == [status |-> "pending"]
Returned(value) == [status |-> "returned", value |-> value]
RejectedWith(error) == [status |-> "threw", value |-> error]
Rejected == RejectedWith("TypeError")

\* no call of analyzeProject is under way
ScanIdle ==
    /\ files = <<>>
    /\ pc = "idle"
    /\ idx = 1
    /\ allUsages = <<>>
    /\ components = <<>>
    /\ keyToComponents = <<>>
    /\ componentToKeys = <<>>
    /\ result = Pending

\* no call of loadCache is under way, and there is no cache file
CacheIdle ==
    /\ cacheFile = [exists |-> FALSE]
    /\ loadPc = "idle"
    /\ fileExists = <<>>
    /\ cache = <<>>
    /\ caught = <<>>
    /\ loaded = Pending

\* no call of generateProps is under way
PropsIdle ==
    /\ program = <<>>
    /\ genPc = "idle"
    /\ stmtIdx = 1
    /\ memberIdx = 1
    /\ props = <<>>
    /\ enumMetadata = <<>>
    /\ copies = <<>>
    /\ generated = Pending
    /\ serialized = <<>>
    /\ deserialized = <<>>

\* the server is not running
ServerIdle ==
    /\ disk = <<>>
    /\ componentImport = <<>>
    /\ changes = 0
    /\ pending = 0
    /\ scanning = 0
    /\ sourceFileCache = <<>>
    /\ propsCache = <<>>
    /\ resolvedPath = <<>>
    /\ importedSourceFile = <<>>
    /\ response = <<>>

\* start() has not been called
LiveIdle ==
    /\ sourceTree = 0
    /\ startPc = "idle"
    /\ analysisCache = <<>>
    /\ tasks = <<>>
    /\ requests = <<>>
    /\ clock = 0
    /\ finished = {}

-----------------------------------------------------------------------------
(* Bounds of the model. *)

MaxFiles == 2     \* files in a project
MaxStmts == 3     \* top-level statements in a project
MaxClock == 1     \* Date.now() ranges over 0..MaxClock

-----------------------------------------------------------------------------
(* Syntax trees. *)

N(kind, text, line, col, kids) ==
    [kind |-> kind, text |-> text, line |-> line, col |-> col, kids |-> kids]

Id(text, L, c)   == N("Identifier", text, L, c, <<>>)
Str(text, L, c)  == N("StringLiteral", text, L, c, <<>>)
Tpl(text, L, c)  == N("NoSubstitutionTemplateLiteral", text, L, c, <<>>)
\* CallExpression: kids[1] is node.expression, the rest node.arguments
Call(L, c, callee, args) == N("CallExpression", "", L, c, <<callee>> \o args)
\* tag "" stands for a tag name that is not an identifier
Opening(tag, L, c, attrs) == N("JsxOpeningElement", tag, L, c, attrs)
SelfClosing(tag, L, c, attrs) == N("JsxSelfClosingElement", tag, L, c, attrs)
\* a JsxElement starts where its opening element starts
Element(tag, L, c, attrs, children, cEnd) ==
    N("JsxElement", "", L, c,
      <<Opening(tag, L, c, attrs)>> \o children
         \o <<N("JsxClosingElement", tag, L, cEnd, <<>>)>>)
\* JsxAttribute: kids is <<initializer>>, or <<>> when there is none
Attr(name, L, c, init) == N("JsxAttribute", name, L, c, init)
JsxExpr(L, c, expr)    == N("JsxExpression", "", L, c, expr)
JsxText(text, L, c)    == N("JsxText", text, L, c, <<>>)
Fragment(L, c, children) == N("JsxFragment", "", L, c, children)
\* Parameter: kids is <<type>>, or <<>> when it has no annotation
Param(name, L, c, type) == N("Parameter", name, L, c, type)
\* TypeReference: text is typeName.text, "" when typeName is a qualified name
TypeRef(name, L, c)    == N("TypeReference", name, L, c, <<>>)
TypeLit(L, c)          == N("TypeLiteral", "", L, c, <<>>)
Block(L, c, stmts)     == N("Block", "", L, c, stmts)
Return(L, c, expr)     == N("ReturnStatement", "", L, c, <<expr>>)
\* function-like nodes: kids are the parameters followed by the body
FunctionDeclaration(name, L, c, params, body) ==
    N("FunctionDeclaration", name, L, c, params \o <<body>>)
ArrowFunction(L, c, params, body) == N("ArrowFunction", "", L, c, params \o <<body>>)
FunctionExpression(L, c, params, body) ==
    N("FunctionExpression", "", L, c, params \o <<body>>)
\* VariableDeclaration: kids is <<initializer>>, or <<>> when there is none
VariableDeclaration(name, L, c, init) == N("VariableDeclaration", name, L, c, init)
\* VariableStatement: kids are declarationList.declarations
VariableStatement(L, c, decls) == N("VariableStatement", "", L, c, decls)
ExpressionStatement(L, c, expr) == N("ExpressionStatement", "", L, c, <<expr>>)
Binary(L, c, operands) == N("BinaryExpression", "", L, c, operands)
PropertyAccess(L, c, obj, name) ==
    N("PropertyAccessExpression", name, L, c, <<obj>>)

-----------------------------------------------------------------------------
(* The statements files are made of; nm is the declared name, L the line.  *)
(* The columns are those of the text shown with a two-letter name.         *)

\* function nm(props: Props) { return <div>{t("a")}{t("b")}{t("a")}</div>; }
Stmt1(nm, L) ==
    FunctionDeclaration(nm, L, 0, <<Param("props", L, 12, <<TypeRef("Props", L, 19)>>)>>,
      Block(L, 26, <<Return(L, 28,
        Element("div", L, 35, <<>>,
          << JsxExpr(L, 40, <<Call(L, 41, Id("t", L, 41), <<Str("a", L, 43)>>)>>),
             JsxExpr(L, 48, <<Call(L, 49, Id("t", L, 49), <<Str("b", L, 51)>>)>>),
             JsxExpr(L, 56, <<Call(L, 57, Id("t", L, 57), <<Str("a", L, 59)>>)>>) >>,
          64))>>))

\* let u, nm = (p: BProps) => <FormattedMessage id="b" />;
Stmt2(nm, L) ==
    VariableStatement(L, 0,
      << VariableDeclaration("u", L, 4, <<>>),
         VariableDeclaration(nm, L, 7,
           <<ArrowFunction(L, 12, <<Param("p", L, 13, <<TypeRef("BProps", L, 16)>>)>>,
               SelfClosing("FormattedMessage", L, 27,
                 <<Attr("id", L, 45, <<Str("b", L, 48)>>)>>))>>) >>)

\* function nm() { return t("a") + t(k) + t(`c`) + t() + i18n.t("c") + tt("c") + t(""); }
Stmt3(nm, L) ==
    FunctionDeclaration(nm, L, 0, <<>>,
      Block(L, 14, <<Return(L, 16, Binary(L, 23,
        << Call(L, 23, Id("t", L, 23), <<Str("a", L, 25)>>),
           Call(L, 32, Id("t", L, 32), <<Id("k", L, 34)>>),
           Call(L, 39, Id("t", L, 39), <<Tpl("c", L, 41)>>),
           Call(L, 48, Id("t", L, 48), <<>>),
           Call(L, 54, PropertyAccess(L, 54, Id("i18n", L, 54), "t"), <<Str("c", L, 61)>>),
           Call(L, 68, Id("tt", L, 68), <<Str("c", L, 71)>>),
           Call(L, 78, Id("t", L, 78), <<Str("", L, 80)>>) >>))>>))

\* function nm({ x }: { x: string }) { return <p><FormattedMessage id="" />
\*   <FormattedMessage id={"c"}>x</FormattedMessage><FormattedMessage id={k} />
\*   <FormattedMessage /><Other id="c" /><FormattedMessage id />
\*   <FormattedMessage defaultMessage="x" id="a" /></p>; }        (on one line)
Stmt4(nm, L) ==
    FunctionDeclaration(nm, L, 0, <<Param("", L, 12, <<TypeLit(L, 19)>>)>>,
      Block(L, 34, <<Return(L, 36,
        Element("p", L, 43, <<>>,
          << SelfClosing("FormattedMessage", L, 46, <<Attr("id", L, 64, <<Str("", L, 67)>>)>>),
             Element("FormattedMessage", L, 72,
               <<Attr("id", L, 90, <<JsxExpr(L, 93, <<Str("c", L, 94)>>)>>)>>,
               <<JsxText("x", L, 99)>>, 100),
             SelfClosing("FormattedMessage", L, 119,
               <<Attr("id", L, 137, <<JsxExpr(L, 140, <<Id("k", L, 141)>>)>>)>>),
             SelfClosing("FormattedMessage", L, 146, <<>>),
             SelfClosing("Other", L, 166, <<Attr("id", L, 173, <<Str("c", L, 176)>>)>>),
             SelfClosing("FormattedMessage", L, 182, <<Attr("id", L, 200, <<>>)>>),
             SelfClosing("FormattedMessage", L, 205,
               << Attr("defaultMessage", L, 223, <<Str("x", L, 238)>>),
                  Attr("id", L, 242, <<Str("a", L, 245)>>) >>) >>,
          251))>>))

\* function nm() { return <b>{t("constructor")}</b>; }
Stmt5(nm, L) ==
    FunctionDeclaration(nm, L, 0, <<>>,
      Block(L, 14, <<Return(L, 16,
        Element("b", L, 23, <<>>,
          <<JsxExpr(L, 26, <<Call(L, 27, Id("t", L, 27), <<Str("constructor", L, 29)>>)>>)>>,
          44))>>))

\* const nm = function (q: Q) { return <></>; };
Stmt6(nm, L) ==
    VariableStatement(L, 0, <<VariableDeclaration(nm, L, 6,
      <<FunctionExpression(L, 11, <<Param("q", L, 21, <<TypeRef("Q", L, 24)>>)>>,
          Block(L, 27, <<Return(L, 29, Fragment(L, 36, <<>>))>>))>>)>>)

\* t("constructor");
Stmt7(nm, L) ==
    ExpressionStatement(L, 0, Call(L, 0, Id("t", L, 0), <<Str("constructor", L, 2)>>))

StmtIds == 1..7

Stmt(k, nm, L) ==
    CASE k = 1 -> Stmt1(nm, L)
      [] k = 2 -> Stmt2(nm, L)
      [] k = 3 -> Stmt3(nm, L)
      [] k = 4 -> Stmt4(nm, L)
      [] k = 5 -> Stmt5(nm, L)
      [] k = 6 -> Stmt6(nm, L)
      [] k = 7 -> Stmt7(nm, L)

\* the i-th statement of a file declares DeclNames[i] on line i-1
DeclNames == <<"Aa", "Bb", "Cc", "Dd", "Ee">>
FileNames == <<"/app/src/One.tsx", "/app/src/Two.tsx", "/app/src/Three.tsx",
               "/app/src/Four.tsx">>

\* import "<specifier>"; the model's specifiers are the imported file's name
Import(specifier, L) ==
    N("ImportDeclaration", "", L, 0, <<Str(specifier, L, 7)>>)

\* A file's text is the list of its statements, each an element of StmtIds,
\* followed by one import declaration for each file it imports.
\* a parsed file: its fileName and its SourceFile node
SourceFile(fileName, text, imports) ==
    [fileName |-> fileName,
     root |-> N("SourceFile", "", 0, 0,
                [s \in 1..Len(text) |-> Stmt(text[s], DeclNames[s], s - 1)]
                  \o [s \in 1..Len(imports) |->
                        Import(imports[s], Len(text) + s - 1)])]

\* a file of a dependency, which program.getSourceFiles() lists when a
\* project file imports it
DependencyFile ==
    [fileName |-> "/app/node_modules/lib/index.tsx", text |-> <<1>>,
     imports |-> <<>>]

\* a file of the build output, a file outside the directory that is scanned
\* and a file of the project in a directory named after node_modules: each
\* holds a component that uses a translation key
BuiltFile ==
    [fileName |-> "/app/dist/Old.tsx", text |-> <<1>>, imports |-> <<>>]
OutsideFile ==
    [fileName |-> "/lib/Shared.tsx", text |-> <<1>>, imports |-> <<>>]
ShimFile ==
    [fileName |-> "/app/src/node_modules_shim/Shim.tsx", text |-> <<1>>,
     imports |-> <<>>]
OtherFiles == {DependencyFile, BuiltFile, OutsideFile}

\* the lists of at most n files, each a non-empty list of statements, with at
\* most budget statements in all
RECURSIVE FileLists(_, _)
FileLists(n, budget) ==
    {<<>>} \cup
    (IF n = 0 THEN {}
     ELSE UNION { { <<f>> \o rest : f \in [1..len -> StmtIds],
                                    rest \in FileLists(n - 1, budget - len) } :
                  len \in 1..budget })

\* the imports of the f-th of a project's n files: none in a project without
\* imports; in a project with imports, the last file imports the dependency's
\* file and the first file, when it is not the last, imports the last
ImportChoices == {"none", "imports"}
ImportsOf(choice, f, n) ==
    IF choice = "none" THEN <<>>
    ELSE IF f = n THEN <<DependencyFile.fileName>>
    ELSE IF f = 1 THEN <<FileNames[n]>>
    ELSE <<>>

\* the projects, as findSourceFiles lists them: at most MaxFiles files of the
\* project's own, with at most MaxStmts statements in all, with or without
\* imports
Projects ==
    { [f \in 1..Len(p) |->
         [fileName |-> FileNames[f], text |-> p[f],
          imports |-> ImportsOf(choice, f, Len(p))]] :
        p \in FileLists(MaxFiles, MaxStmts), choice \in ImportChoices }

\* the file an import resolves to: a root file, or another file on the disk
FileNamed(roots, fileName) ==
    IF \E k \in 1..Len(roots) : roots[k].fileName = fileName
    THEN <<roots[CHOOSE k \in 1..Len(roots) : roots[k].fileName = fileName]>>
    ELSE IF \E f \in OtherFiles : f.fileName = fileName
         THEN <<CHOOSE f \in OtherFiles : f.fileName = fileName>>
         ELSE <<>>

\* ts.createProgram(rootNames): the root files are processed in order; a
\* file not met before is entered in the program's list after the files it
\* imports have been processed
RECURSIVE processSourceFile(_, _, _, _)
RECURSIVE processImportedModules(_, _, _, _, _)
processSourceFile(file, roots, list, seen) ==
    IF file.fileName \in seen
          \/ \E k \in 1..Len(list) : list[k].fileName = file.fileName
    THEN list
    ELSE Append(processImportedModules(file, 1, roots, list,
                                       seen \cup {file.fileName}),
                file)
processImportedModules(file, k, roots, list, seen) ==
    IF k > Len(file.imports) THEN list
    ELSE LET imported == FileNamed(roots, file.imports[k])
         IN processImportedModules(file, k + 1, roots,
               IF imported = <<>> THEN list
               ELSE processSourceFile(imported[1], roots, list, seen),
               seen)
RECURSIVE processRootFiles(_, _, _)
processRootFiles(roots, k, list) ==
    IF k > Len(roots) THEN list
    ELSE processRootFiles(roots, k + 1,
                          processSourceFile(roots[k], roots, list, {}))

\* the program's list of files
programFiles == processRootFiles(files, 1, <<>>)

\* program.getSourceFiles(): the program's files, parsed
sourceFiles ==
    [k \in 1..Len(programFiles) |->
        SourceFile(programFiles[k].fileName, programFiles[k].text,
                   programFiles[k].imports)]

-----
(* Optional values (string | null): <<>> is null, <<s>> the string s.      *)

Null == <<>>
Some(s) == <<s>>
\* JavaScript truthiness of a string | null: null and "" are falsy
Truthy(opt) == opt # Null /\ opt[1] # ""

-----------------------------------------------------------------------------
(* analyzer.ts: the per-file scanner. *)

JsxKinds == {"JsxElement", "JsxSelfClosingElement", "JsxFragment"}

RECURSIVE returnsJSX(_)
returnsJSX(node) ==
    \/ node.kind \in JsxKinds
    \/ \E k \in 1..Len(node.kids) : returnsJSX(node.kids[k])

\* The visitors below assign a closure variable (componentName,
\* propsInterface) as they walk the tree. Each visit is modelled by the
\* sequence of values it assigns, in the order of the walk; what the function
\* returns is the last value assigned, or the initial null.
LastAssigned(assignments) ==
    IF assignments = <<>> THEN Null ELSE Some(assignments[Len(assignments)])

\* the forEach callback over declarationList.declarations
RECURSIVE getComponentName_decls(_, _)
getComponentName_decls(decls, k) ==
    IF k > Len(decls) THEN <<>>
    ELSE LET decl == decls[k]
             hit  == /\ decl.kind = "VariableDeclaration"
                     /\ decl.text # ""
                     /\ decl.kids # <<>>
                     /\ returnsJSX(decl.kids[1])
         IN (IF hit THEN <<decl.text>> ELSE <<>>)
              \o getComponentName_decls(decls, k + 1)

\* A qualifying function declaration assigns componentName and returns from
\* visit without descending; the callback's return value is undefined, so
\* ts.forEachChild goes on to the node's next sibling.
FunctionDeclarationHit(node) ==
    node.kind = "FunctionDeclaration" /\ node.text # "" /\ returnsJSX(node)

RECURSIVE getComponentName_visit(_)
RECURSIVE getComponentName_kids(_, _)
getComponentName_visit(node) ==
    IF FunctionDeclarationHit(node) THEN <<node.text>>
    ELSE (IF node.kind = "VariableStatement"
          THEN getComponentName_decls(node.kids, 1) ELSE <<>>)
           \o getComponentName_kids(node.kids, 1)
getComponentName_kids(kids, k) ==
    IF k > Len(kids) THEN <<>>
    ELSE getComponentName_visit(kids[k]) \o getComponentName_kids(kids, k + 1)

getComponentName(sourceFile) ==
    LastAssigned(getComponentName_visit(sourceFile.root))

\* node.parameters: the Parameter children of a function-like node
Parameters(node) == SelectSeq(node.kids, LAMBDA n : n.kind = "Parameter")

\* firstParam?.type is a TypeReference whose typeName is an identifier:
\* the assignment made for one function-like node
FirstParamTypeName(fn) ==
    LET ps == Parameters(fn) IN
    IF /\ ps # <<>>
       /\ ps[1].kids # <<>>
       /\ ps[1].kids[1].kind = "TypeReference"
       /\ ps[1].kids[1].text # ""
    THEN <<ps[1].kids[1].text>>
    ELSE <<>>

RECURSIVE getPropsInterface_decls(_, _, _)
getPropsInterface_decls(decls, k, componentName) ==
    IF k > Len(decls) THEN <<>>
    ELSE LET decl == decls[k]
             hit  == /\ decl.text # "" /\ decl.text = componentName
                     /\ decl.kids # <<>>
                     /\ decl.kids[1].kind = "ArrowFunction"
         IN (IF hit THEN FirstParamTypeName(decl.kids[1]) ELSE <<>>)
              \o getPropsInterface_decls(decls, k + 1, componentName)

RECURSIVE getPropsInterface_visit(_, _)
RECURSIVE getPropsInterface_kids(_, _, _)
getPropsInterface_visit(node, componentName) ==
    (IF node.kind = "FunctionDeclaration" /\ node.text # ""
        /\ node.text = componentName
     THEN FirstParamTypeName(node) ELSE <<>>)
      \o (IF node.kind = "VariableStatement"
          THEN getPropsInterface_decls(node.kids, 1, componentName) ELSE <<>>)
      \o getPropsInterface_kids(node.kids, 1, componentName)
getPropsInterface_kids(kids, k, componentName) ==
    IF k > Len(kids) THEN <<>>
    ELSE getPropsInterface_visit(kids[k], componentName)
           \o getPropsInterface_kids(kids, k + 1, componentName)

getPropsInterface(sourceFile, componentName) ==
    LastAssigned(getPropsInterface_visit(sourceFile.root, componentName))

\* the TranslationUsage pushed at analyzer.ts:182 and :224
Usage(key, sourceFile, componentName, node) ==
    [key |-> key,
     componentPath |-> sourceFile.fileName,
     componentName |-> componentName,
     line |-> node.line + 1,
     column |-> node.col + 1]

\* ts.isIdentifier(expr) && expr.text === "t"
IsTranslateCallee(expr) == expr.kind = "Identifier" /\ expr.text = "t"

\* a variant that also takes a template literal without substitutions for a
\* string literal
HasLiteralFirstArg_AnyLiteral(node) ==
    /\ Len(node.kids) >= 2
    /\ node.kids[2].kind \in {"StringLiteral", "NoSubstitutionTemplateLiteral"}

\* firstArg && ts.isStringLiteral(firstArg); kids[2] is node.arguments[0]
HasLiteralFirstArg(node) ==
    Len(node.kids) >= 2 /\ node.kids[2].kind = "StringLiteral"

\* the t("key") pattern
CallUsages(node, sourceFile, componentName) ==
    IF /\ node.kind = "CallExpression"
       /\ IsTranslateCallee(node.kids[1])
       /\ HasLiteralFirstArg(node)
    THEN <<Usage(node.kids[2].text, sourceFile, componentName, node)>>
    ELSE <<>>

\* node.attributes.properties.find(attr => name is the identifier "id")
FindIdAttr(node) ==
    LET ids == SelectSeq(node.kids,
                  LAMBDA a : a.kind = "JsxAttribute" /\ a.text = "id")
    IN IF ids = <<>> THEN <<>> ELSE <<ids[1]>>

\* the key read from the id attribute's initializer (string | null)
IdAttrKey(init) ==
    IF init.kind = "StringLiteral" THEN Some(init.text)
    ELSE IF /\ init.kind = "JsxExpression"
            /\ init.kids # <<>>
            /\ init.kids[1].kind = "StringLiteral"
         THEN Some(init.kids[1].text)
         ELSE Null

\* if (key): the key is tested for truthiness
KeyAccepted(key) == Truthy(key)

\* the <FormattedMessage id="key" /> pattern
JsxUsages(node, sourceFile, componentName) ==
    IF /\ node.kind \in {"JsxOpeningElement", "JsxSelfClosingElement"}
       /\ node.text = "FormattedMessage"
    THEN LET idAttr == FindIdAttr(node) IN
         IF idAttr # <<>> /\ idAttr[1].kids # <<>>
         THEN LET key == IdAttrKey(idAttr[1].kids[1]) IN
              IF KeyAccepted(key)
              THEN <<Usage(key[1], sourceFile, componentName, node)>>
              ELSE <<>>
         ELSE <<>>
    ELSE <<>>

RECURSIVE findTranslationKeys_visit(_, _, _)
RECURSIVE findTranslationKeys_kids(_, _, _, _)
findTranslationKeys_visit(node, sourceFile, componentName) ==
    CallUsages(node, sourceFile, componentName)
      \o JsxUsages(node, sourceFile, componentName)
      \o findTranslationKeys_kids(node.kids, 1, sourceFile, componentName)
findTranslationKeys_kids(kids, k, sourceFile, componentName) ==
    IF k > Len(kids) THEN <<>>
    ELSE findTranslationKeys_visit(kids[k], sourceFile, componentName)
           \o findTranslationKeys_kids(kids, k + 1, sourceFile, componentName)

findTranslationKeys(sourceFile) ==
    LET name == getComponentName(sourceFile)
        componentName == IF Truthy(name) THEN name[1] ELSE "Unknown"
    IN findTranslationKeys_visit(sourceFile.root, sourceFile, componentName)

-----------------------------------------------------------------------------
(* analyzer.ts: analyzeProject. *)

CACHE_VERSION == "1.0.0"

\* [...new Set(keys)]: the distinct elements, in first-occurrence order
RECURSIVE SetOrder(_, _, _)
SetOrder(keys, k, acc) ==
    IF k > Len(keys) THEN acc
    ELSE SetOrder(keys, k + 1,
            IF \E m \in 1..Len(acc) : acc[m] = keys[k] THEN acc
            ELSE Append(acc, keys[k]))

\* a variant that keeps every usage's key, repeated ones too
TranslationKeys_NoSet(usages) == [u \in 1..Len(usages) |-> usages[u].key]

TranslationKeys(usages) ==
    SetOrder([u \in 1..Len(usages) |-> usages[u].key], 1, <<>>)

\* The index maps are plain objects ({}), modelled as functions from their own
\* property names. A property the object does not own is read from
\* Object.prototype; every member of Object.prototype is a function, except
\* __proto__, which reads as Object.prototype itself: all are truthy and none
\* has a push method.
ObjectPrototypeMembers ==
    {"constructor", "toString", "toLocaleString", "valueOf", "hasOwnProperty",
     "isPrototypeOf", "propertyIsEnumerable", "__proto__", "__defineGetter__",
     "__defineSetter__", "__lookupGetter__", "__lookupSetter__"}

EmptyObject == [k \in {} |-> <<>>]
Put(obj, key, value) == [k \in DOMAIN obj \cup {key} |->
                            IF k = key THEN value ELSE obj[k]]

\* a variant without the guard: the list is created anew for every component
ReadsFalsy_Unguarded(obj, key) == TRUE

\* !keyToComponents[key]: no own property and nothing inherited
ReadsFalsy(obj, key) == key \notin DOMAIN obj /\ key \notin ObjectPrototypeMembers

\* keyToComponents[key].push(path): a TypeError unless the value read is an
\* array, which only an own property is
PushThrows(obj, key) == key \notin DOMAIN obj

\* analyzer.ts:293-298, the inner loop over component.translationKeys;
\* the result is the updated keyToComponents, or that push threw
Threw == [threw |-> TRUE, map |-> EmptyObject]
Done(k2c) == [threw |-> FALSE, map |-> k2c]
RECURSIVE IndexKeys(_, _, _, _)
IndexKeys(k2c, keys, k, path) ==
    IF k > Len(keys) THEN Done(k2c)
    ELSE LET key == keys[k]
             initd == IF ReadsFalsy(k2c, key) THEN Put(k2c, key, <<>>) ELSE k2c
         IN IF PushThrows(initd, key) THEN Threw
            ELSE IndexKeys(Put(initd, key, Append(initd[key], path)),
                           keys, k + 1, path)

\* analyzer.ts:276-281
ComponentInfo(sourceFile, componentName, usages) ==
    [path |-> sourceFile.fileName,
     name |-> componentName,
     propsInterface |-> getPropsInterface(sourceFile, componentName),
     translationKeys |-> TranslationKeys(usages)]

\* sourceFile.fileName.includes("node_modules"); of the model's file names
\* only the dependency's contains it
InNodeModules(sourceFile) ==
    sourceFile.fileName \in {DependencyFile.fileName, ShimFile.fileName}

Init ==
    /\ files \in Projects
    /\ pc = "scan"
    /\ idx = 1
    /\ allUsages = <<>>
    /\ components = <<>>
    /\ keyToComponents = EmptyObject
    /\ componentToKeys = EmptyObject
    /\ result = Pending
    /\ CacheIdle
    /\ PropsIdle
    /\ ServerIdle
    /\ LiveIdle

\* one iteration of the loop at analyzer.ts:265
ScanFile ==
    /\ pc = "scan"
    /\ idx <= Len(programFiles)
    /\ LET sourceFile == sourceFiles[idx]
           usages == findTranslationKeys(sourceFile)
           componentName == getComponentName(sourceFile)
       IN IF InNodeModules(sourceFile)
          THEN UNCHANGED <<allUsages, components>>
          ELSE /\ allUsages' = allUsages \o usages
               /\ components' =
                    IF Truthy(componentName)
                    THEN Append(components,
                                ComponentInfo(sourceFile, componentName[1], usages))
                    ELSE components
    /\ idx' = idx + 1
    /\ UNCHANGED <<files, pc, keyToComponents, componentToKeys, result>>
    /\ UNCHANGED <<cacheVars, propsVars, serverVars>>
    /\ UNCHANGED liveVars

\* analyzer.ts:286-288: the scan loop is over, the index maps are created
StartIndex ==
    /\ pc = "scan"
    /\ idx > Len(programFiles)
    /\ pc' = "index"
    /\ idx' = 1
    /\ keyToComponents' = EmptyObject
    /\ componentToKeys' = EmptyObject
    /\ UNCHANGED <<files, allUsages, components, result>>
    /\ UNCHANGED <<cacheVars, propsVars, serverVars>>
    /\ UNCHANGED liveVars

\* one iteration of the loop at analyzer.ts:290; a TypeError thrown by push
\* leaves analyzeProject (the returned promise rejects)
IndexComponent ==
    /\ pc = "index"
    /\ idx <= Len(components)
    /\ LET component == components[idx]
           k2c == IndexKeys(keyToComponents, component.translationKeys, 1,
                            component.path)
       IN /\ componentToKeys' =
                Put(componentToKeys, component.path, component.translationKeys)
          /\ IF k2c.threw
             THEN /\ pc' = "done"
                  /\ result' = Rejected
                  /\ UNCHANGED <<keyToComponents, idx>>
             ELSE /\ keyToComponents' = k2c.map
                  /\ idx' = idx + 1
                  /\ UNCHANGED <<pc, result>>
    /\ UNCHANGED <<files, allUsages, components>>
    /\ UNCHANGED <<cacheVars, propsVars, serverVars>>
    /\ UNCHANGED liveVars

\* analyzer.ts:305-312
ReturnSnapshot ==
    /\ pc = "index"
    /\ idx > Len(components)
    /\ \E now \in 0..MaxClock :
          result' = Returned([version |-> CACHE_VERSION,
                              timestamp |-> now,
                              translationUsages |-> allUsages,
                              components |-> components,
                              keyToComponents |-> keyToComponents,
                              componentToKeys |-> componentToKeys])
    /\ pc' = "done"
    /\ UNCHANGED <<files, idx, allUsages, components, keyToComponents,
                   componentToKeys>>
    /\ UNCHANGED <<cacheVars, propsVars, serverVars>>
    /\ UNCHANGED liveVars

Next == ScanFile \/ StartIndex \/ IndexComponent \/ ReturnSnapshot

Spec == Init /\ [][Next]_vars

-----------------------------------------------------------------------------
(* analyzer.ts: findSourceFiles, and analyzeProject over what it lists. *)

MaxTreeStmts == 2   \* statements of the file One.tsx of a directory tree

\* An entry of the tree below the scanned directory /app: the directories
\* that lead to the file, its extension and the file.
Entry(dir, ext, file) == [dir |-> dir, ext |-> ext, file |-> file]

\* /app/src/One.tsx, which imports nothing or one of the other files
OneEntries ==
    {Entry(<<"src">>, "tsx",
           [fileName |-> FileNames[1], text |-> text, imports |-> imports]) :
        text \in UNION {[1..len -> StmtIds] : len \in 1..MaxTreeStmts},
        imports \in {<<>>} \cup {<<f.fileName>> : f \in OtherFiles}}

\* the trees: One.tsx, with or without the file under node_modules_shim, then
\* a file that is no source file, the build output and the dependency
DirectoryTrees ==
    {<<one>> \o shim
       \o <<Entry(<<"src">>, "md",
                  [fileName |-> "/app/src/notes.md", text |-> <<1>>,
                   imports |-> <<>>]),
            Entry(<<"dist">>, "tsx", BuiltFile),
            Entry(<<"node_modules", "lib">>, "tsx", DependencyFile)>> :
        one \in OneEntries,
        shim \in {<<>>, <<Entry(<<"src", "node_modules_shim">>, "tsx", ShimFile)>>}}

ExcludedDirectories == {"node_modules", "dist", "build", ".git"}

\* findSourceFiles: the files with one of the four extensions, in the order
\* of the listing, but for those below a directory with an excluded name
findSourceFiles(tree) ==
    LET listed == SelectSeq(tree, LAMBDA entry :
                     /\ \A k \in 1..Len(entry.dir) :
                           entry.dir[k] \notin ExcludedDirectories
                     /\ entry.ext \in {"ts", "tsx", "js", "jsx"})
    IN [k \in 1..Len(listed) |-> listed[k].file]

\* analyzeProject has awaited findSourceFiles and created the program
DiscoveryInit ==
    /\ \E tree \in DirectoryTrees : files = findSourceFiles(tree)
    /\ pc = "scan"
    /\ idx = 1
    /\ allUsages = <<>>
    /\ components = <<>>
    /\ keyToComponents = EmptyObject
    /\ componentToKeys = EmptyObject
    /\ result = Pending
    /\ CacheIdle
    /\ PropsIdle
    /\ ServerIdle
    /\ LiveIdle

SpecDiscovery == DiscoveryInit /\ [][Next]_vars

-----------------------------------------------------------------------------
(* analyzer.ts: loadCache. *)

\* JSON values
JNull == [t |-> "null"]
JNum(n) == [t |-> "number", v |-> n]
JStr(str) == [t |-> "string", v |-> str]
JArr(list) == [t |-> "array", v |-> list]
JObj(fields) == [t |-> "object", v |-> fields]
Undefined == [t |-> "undefined"]

\* a persisted snapshot, as JSON
SnapshotDocument(version, timestamp) ==
    JObj([version |-> version,
          timestamp |-> JNum(timestamp),
          translationUsages |-> JArr(<<>>),
          components |-> JArr(<<>>),
          keyToComponents |-> JObj(EmptyObject),
          componentToKeys |-> JObj(EmptyObject)])

\* what the version field of a cache file may hold
Versions == {JStr(CACHE_VERSION), JStr("0.9.0"), JStr("1.0"), JNum(1)}

\* the JSON documents a cache file may hold
Documents ==
    {JNull, JNum(1), JStr(CACHE_VERSION), JArr(<<>>), JObj(EmptyObject),
     JObj([timestamp |-> JNum(0)])}
      \cup {SnapshotDocument(v, ts) : v \in Versions, ts \in 0..MaxClock}

\* A file's text is either the JSON text of a document or text that is not
\* JSON: nothing at all, or a document cut short.
CacheTexts ==
    {[form |-> "json", value |-> d] : d \in Documents}
      \cup {[form |-> "empty"], [form |-> "truncated"]}

CacheFiles ==
    {[exists |-> FALSE]} \cup {[exists |-> TRUE, text |-> x] : x \in CacheTexts}

\* await file.json(): the document, or the error thrown
ReadJson(file) ==
    IF ~file.exists THEN [threw |-> TRUE, error |-> "ENOENT"]
    ELSE IF file.text.form # "json" THEN [threw |-> TRUE, error |-> "SyntaxError"]
    ELSE [threw |-> FALSE, value |-> file.text.value]

\* value.name in JavaScript, for a value that is not null
GetProperty(value, name) ==
    IF value.t = "object" /\ name \in DOMAIN value.v THEN value.v[name]
    ELSE Undefined

\* a variant that takes any version that is present
VersionMatches_Present(document) ==
    GetProperty(document, "version") # Undefined

\* cache.version === CACHE_VERSION
VersionMatches(document) ==
    GetProperty(document, "version") = JStr(CACHE_VERSION)

\* analyzer.ts:333-337: the catch block logs the error and loadCache returns null
CatchAndReturnNull(error) ==
    /\ caught' = <<error>>
    /\ loaded' = Returned(JNull)
    /\ loadPc' = "done"

CacheInit ==
    /\ ScanIdle
    /\ ServerIdle
    /\ cacheFile \in CacheFiles
    /\ loadPc = "idle"
    /\ fileExists = <<>>
    /\ cache = <<>>
    /\ caught = <<>>
    /\ loaded = Pending
    /\ PropsIdle
    /\ LiveIdle

\* analyzer.ts:318-321: loadCache is called
LoadCacheCall ==
    /\ loadPc \in {"idle", "done"}
    /\ loadPc' = "exists"
    /\ fileExists' = <<>>
    /\ cache' = <<>>
    /\ caught' = <<>>
    /\ loaded' = Pending
    /\ UNCHANGED <<cacheFile, scanVars, propsVars, serverVars>>
    /\ UNCHANGED liveVars

\* analyzer.ts:323: await file.exists()
LoadCacheExists ==
    /\ loadPc = "exists"
    /\ fileExists' = <<cacheFile.exists>>
    /\ IF cacheFile.exists
       THEN /\ loadPc' = "json"
            /\ UNCHANGED loaded
       ELSE /\ loadPc' = "done"
            /\ loaded' = Returned(JNull)
    /\ UNCHANGED <<cacheFile, cache, caught, scanVars, propsVars, serverVars>>
    /\ UNCHANGED liveVars

\* analyzer.ts:324: await file.json()
LoadCacheJson ==
    /\ loadPc = "json"
    /\ LET read == ReadJson(cacheFile) IN
       IF read.threw
       THEN CatchAndReturnNull(read.error) /\ UNCHANGED cache
       ELSE /\ cache' = <<read.value>>
            /\ loadPc' = "check"
            /\ UNCHANGED <<caught, loaded>>
    /\ UNCHANGED <<cacheFile, fileExists, scanVars, propsVars, serverVars>>
    /\ UNCHANGED liveVars

\* analyzer.ts:326-331: reading .version of null is a TypeError
LoadCacheCheck ==
    /\ loadPc = "check"
    /\ IF cache[1] = JNull
       THEN CatchAndReturnNull("TypeError")
       ELSE /\ loaded' = Returned(IF VersionMatches(cache[1]) THEN cache[1]
                                  ELSE JNull)
            /\ loadPc' = "done"
            /\ UNCHANGED caught
    /\ UNCHANGED <<cacheFile, fileExists, cache, scanVars, propsVars, serverVars>>
    /\ UNCHANGED liveVars

\* The cache file is written, replaced or removed by something else: the
\* processes sharing it are not coordinated.
CacheFileChanges ==
    /\ cacheFile' \in CacheFiles \ {cacheFile}
    /\ UNCHANGED <<loadPc, fileExists, cache, caught, loaded, scanVars,
                   propsVars, serverVars>>
    /\ UNCHANGED liveVars

CacheNext ==
    \/ LoadCacheCall
    \/ LoadCacheExists
    \/ LoadCacheJson
    \/ LoadCacheCheck
    \/ CacheFileChanges

SpecCache == CacheInit /\ [][CacheNext]_vars

\* C7: loadCache never throws: it returns null when the file was found
\* missing, when reading it as JSON failed, or when the version read differs
\* from CACHE_VERSION; whatever else it returns has version CACHE_VERSION.
C7_LoadFailsSoft ==
    /\ loaded.status # "threw"
    /\ loadPc = "done" =>
          /\ loaded.status = "returned"
          /\ fileExists = <<FALSE>> => loaded.value = JNull
          /\ caught # <<>> => loaded.value = JNull
          /\ (cache # <<>> /\ cache[1] # JNull
                /\ GetProperty(cache[1], "version") # JStr(CACHE_VERSION))
               => loaded.value = JNull
          /\ loaded.value # JNull =>
                /\ loaded.value.t = "object"
                /\ "version" \in DOMAIN loaded.value.v
                /\ loaded.value.v["version"] = JStr(CACHE_VERSION)
                /\ cache = <<loaded.value>>

\* loadCache has returned null after exists() answered true: the file held
\* the JSON text null, or was removed before it was read
C7_Witness ==
    /\ loadPc = "done"
    /\ fileExists = <<TRUE>>
    /\ caught \in {<<"TypeError">>, <<"ENOENT">>}
    /\ loaded = Returned(JNull)

-----------------------------------------------------------------------------
(* prop-generator.ts: syntax of the declarations it reads. *)

\* Names that are searched or rewritten character by character are sequences
\* of one-character strings; Text gives the string they spell.
RECURSIVE Text(_)
Text(chars) == IF chars = <<>> THEN "" ELSE chars[1] \o Text(Tail(chars))

StringKeyword == [kind |-> "StringKeyword"]
NumberKeyword == [kind |-> "NumberKeyword"]
BooleanKeyword == [kind |-> "BooleanKeyword"]
TrueKeyword == [kind |-> "TrueKeyword"]
FalseKeyword == [kind |-> "FalseKeyword"]
NullKeyword == [kind |-> "NullKeyword"]
StringLiteral(text) == [kind |-> "StringLiteral", text |-> text]
NumericLiteral(text) == [kind |-> "NumericLiteral", text |-> text]
PrefixUnaryExpression(operator, operand) ==
    [kind |-> "PrefixUnaryExpression", operator |-> operator,
     operand |-> operand]
FunctionTypeNode == [kind |-> "FunctionType"]
ArrayTypeNode(elementType) ==
    [kind |-> "ArrayType", elementType |-> elementType]
UnionTypeNode(types) == [kind |-> "UnionType", types |-> types]
LiteralTypeNode(literal) == [kind |-> "LiteralType", literal |-> literal]
TypeReferenceNode(typeName) ==
    [kind |-> "TypeReference", typeName |-> typeName]
TypeLiteralNode(members) == [kind |-> "TypeLiteral", members |-> members]
TupleTypeNode == [kind |-> "TupleType"]
\* name: type, or name alone when type is Null
PropertySignature(name, type) ==
    [kind |-> "PropertySignature", name |-> name, type |-> type]
MethodSignature(name) == [kind |-> "MethodSignature", name |-> name]
InterfaceDeclaration(name, members) ==
    [kind |-> "InterfaceDeclaration", name |-> name, members |-> members]
EnumMember(name, initializer) ==
    [kind |-> "EnumMember", name |-> name, initializer |-> initializer]
EnumDeclaration(name, members) ==
    [kind |-> "EnumDeclaration", name |-> name, members |-> members]

-----------------------------------------------------------------------------
(* prop-generator.ts: the values it produces. *)

JBool(b) == [t |-> "boolean", v |-> b]
\* a number with two decimals
JDec(whole, hundredths) ==
    [t |-> "number", v |-> whole, hundredths |-> hundredths]
\* the mock function, whose name property is set to the field's name
JFun(name) == [t |-> "function", name |-> name]
JDate == [t |-> "Date"]
JFile == [t |-> "File", name |-> "mock.txt"]

UpperCase == <<"A", "B", "C", "D", "E", "F", "G", "H", "I", "J", "K", "L", "M",
               "N", "O", "P", "Q", "R", "S", "T", "U", "V", "W", "X", "Y", "Z">>
LowerCase == <<"a", "b", "c", "d", "e", "f", "g", "h", "i", "j", "k", "l", "m",
               "n", "o", "p", "q", "r", "s", "t", "u", "v", "w", "x", "y", "z">>
IndexIn(list, c) == CHOOSE i \in 1..Len(list) : list[i] = c
Occurs(list, c) == \E i \in 1..Len(list) : list[i] = c

toLowerCase(s) ==
    [i \in 1..Len(s) |->
        IF Occurs(UpperCase, s[i]) THEN LowerCase[IndexIn(UpperCase, s[i])]
        ELSE s[i]]
toUpperCase(s) ==
    [i \in 1..Len(s) |->
        IF Occurs(LowerCase, s[i]) THEN UpperCase[IndexIn(LowerCase, s[i])]
        ELSE s[i]]
includes(s, sub) ==
    \E i \in 0..(Len(s) - Len(sub)) : SubSeq(s, i + 1, i + Len(sub)) = sub

\* Number(text) for the text of a decimal literal
DecimalDigits == <<"0", "1", "2", "3", "4", "5", "6", "7", "8", "9">>
RECURSIVE Number(_)
Number(text) ==
    IF text = <<>> THEN 0
    ELSE Number(SubSeq(text, 1, Len(text) - 1)) * 10
           + IndexIn(DecimalDigits, text[Len(text)]) - 1

generateStringValue(propName) ==
    LET lower == toLowerCase(propName) IN
    IF includes(lower, <<"i", "d">>) THEN "mock-id-123"
    ELSE IF includes(lower, <<"t", "i", "t", "l", "e">>) THEN "Mock Title"
    ELSE IF includes(lower, <<"n", "a", "m", "e">>) THEN "Mock " \o Text(propName)
    ELSE IF includes(lower, <<"d", "e", "s", "c", "r", "i", "p", "t", "i", "o", "n">>) THEN "This is a mock description"
    ELSE IF includes(lower, <<"e", "m", "a", "i", "l">>) THEN "mock@example.com"
    ELSE IF includes(lower, <<"u", "r", "l">>) \/ includes(lower, <<"l", "i", "n", "k">>)
         THEN "https://example.com"
    ELSE IF includes(lower, <<"p", "a", "t", "h">>) THEN "/mock/path"
    ELSE IF includes(lower, <<"d", "a", "t", "e">>) THEN "2025-10-11"
    ELSE IF includes(lower, <<"t", "i", "m", "e">>) THEN "12:34"
    ELSE IF includes(lower, <<"d", "u", "r", "a", "t", "i", "o", "n">>) THEN "10:24"
    ELSE IF includes(lower, <<"c", "o", "l", "o", "r">>) THEN "#4a90e2"
    ELSE IF includes(lower, <<"t", "h", "u", "m", "b", "n", "a", "i", "l">>) THEN "data:image/svg+xml;base64,PHN2ZyB3aWR0aD0iMzAwIiBoZWlnaHQ9IjIwMCIgeG1sbnM9Imh0dHA6Ly93d3cudzMub3JnLzIwMDAvc3ZnIj48cmVjdCB3aWR0aD0iMzAwIiBoZWlnaHQ9IjIwMCIgZmlsbD0iIzRhOTBlMiIvPjwvc3ZnPg=="
    ELSE "Mock " \o Text(propName)

\* a variant without the rule for "age"
generateNumberValue_NoAgeRule(propName) ==
    LET lower == toLowerCase(propName) IN
    IF includes(lower, <<"c", "o", "u", "n", "t">>) \/ includes(lower, <<"t", "o", "t", "a", "l">>) THEN JNum(42)
    ELSE IF includes(lower, <<"v", "i", "e", "w", "s">>) THEN JNum(1234)
    ELSE IF includes(lower, <<"p", "r", "i", "c", "e">>) \/ includes(lower, <<"c", "o", "s", "t">>)
         THEN JDec(99, 99)
    ELSE IF includes(lower, <<"p", "e", "r", "c", "e", "n", "t">>) THEN JNum(75)
    ELSE IF includes(lower, <<"i", "n", "d", "e", "x">>) THEN JNum(0)
    ELSE JNum(123)

generateNumberValue(propName) ==
    LET lower == toLowerCase(propName) IN
    IF includes(lower, <<"c", "o", "u", "n", "t">>) \/ includes(lower, <<"t", "o", "t", "a", "l">>) THEN JNum(42)
    ELSE IF includes(lower, <<"v", "i", "e", "w", "s">>) THEN JNum(1234)
    ELSE IF includes(lower, <<"a", "g", "e">>) THEN JNum(25)
    ELSE IF includes(lower, <<"p", "r", "i", "c", "e">>) \/ includes(lower, <<"c", "o", "s", "t">>)
         THEN JDec(99, 99)
    ELSE IF includes(lower, <<"p", "e", "r", "c", "e", "n", "t">>) THEN JNum(75)
    ELSE IF includes(lower, <<"i", "n", "d", "e", "x">>) THEN JNum(0)
    ELSE JNum(123)

capitalize(str) ==
    IF str = <<>> THEN <<>>
    ELSE toUpperCase(<<str[1]>>) \o Tail(str)

generateObjectValue(propName) ==
    JObj(Put(EmptyObject, "mock" \o Text(capitalize(propName)),
             JStr("mock-value")))

\* Object.entries of a Date or a File is empty: the copy is a plain {}
RECURSIVE generateDeepCopy(_)
generateDeepCopy(obj) ==
    IF obj.t = "array"
    THEN JArr([i \in 1..Len(obj.v) |-> generateDeepCopy(obj.v[i])])
    ELSE IF obj.t = "object"
    THEN JObj([k \in DOMAIN obj.v |-> generateDeepCopy(obj.v[k])])
    ELSE IF obj.t \in {"Date", "File"} THEN JObj(EmptyObject)
    ELSE obj

\* The objects (arrays, records, functions) of the value generateDeepCopy
\* returns in its call number copy, each with the place it has there: the
\* arrays and the records are created by the call, a function is the object
\* that was passed in (the final `return obj`).
RECURSIVE ObjectsOfCopy(_, _, _)
ObjectsOfCopy(obj, copy, path) ==
    IF obj.t = "array"
    THEN {[createdBy |-> copy, path |-> path]}
           \cup UNION {ObjectsOfCopy(obj.v[i], copy, Append(path, ToString(i - 1))) :
                          i \in 1..Len(obj.v)}
    ELSE IF obj.t = "object"
    THEN {[createdBy |-> copy, path |-> path]}
           \cup UNION {ObjectsOfCopy(obj.v[k], copy, Append(path, k)) :
                          k \in DOMAIN obj.v}
    ELSE IF obj.t \in {"Date", "File"} THEN {[createdBy |-> copy, path |-> path]}
    ELSE IF obj.t = "function" THEN {[createdBy |-> 0, path |-> path]}
    ELSE {}

\* the last declaration of that kind and name in the file, or Null
LastDeclaration(kind, name, statements) ==
    LET hits == {k \in 1..Len(statements) :
                    statements[k].kind = kind /\ statements[k].name = name}
    IN IF hits = {} THEN Null
       ELSE Some(statements[CHOOSE k \in hits : \A m \in hits : m <= k])

\* a variant that finds no declaration
findInterfaceDeclaration_None(typeName, sourceFile) == Null

findInterfaceDeclaration(typeName, sourceFile) ==
    LastDeclaration("InterfaceDeclaration", typeName, sourceFile.statements)

findEnumDeclaration(enumName, sourceFile) ==
    LastDeclaration("EnumDeclaration", enumName, sourceFile.statements)

\* the for loop of getAllEnumValues, from member k on
RECURSIVE EnumValuesFrom(_, _, _, _)
EnumValuesFrom(members, k, nextNumericValue, values) ==
    IF k > Len(members) THEN values
    ELSE LET member == members[k]
             init == member.initializer
         IN IF init # Null
            THEN IF init.kind = "StringLiteral"
                 THEN EnumValuesFrom(members, k + 1, nextNumericValue,
                        Append(values, [name |-> member.name,
                                        value |-> JStr(init.text)]))
                 ELSE IF init.kind = "NumericLiteral"
                 THEN EnumValuesFrom(members, k + 1, Number(init.text) + 1,
                        Append(values, [name |-> member.name,
                                        value |-> JNum(Number(init.text))]))
                 ELSE EnumValuesFrom(members, k + 1, nextNumericValue, values)
            ELSE EnumValuesFrom(members, k + 1, nextNumericValue + 1,
                    Append(values, [name |-> member.name,
                                    value |-> JNum(nextNumericValue)]))

getAllEnumValues(enumDecl) == EnumValuesFrom(enumDecl.members, 1, 0, <<>>)

getEnumFirstValue(enumDecl) ==
    LET values == getAllEnumValues(enumDecl) IN
    IF Len(values) > 0 THEN values[1].value ELSE JNum(0)

MaxStack == 4         \* nested calls the call stack has room for

\* what a call of generateValueForType gives back: a value, with the enum
\* descriptor if there is one, or the RangeError of an exhausted call stack
Value(v) == [threw |-> FALSE, value |-> v, enumMetadata |-> Null]
StackOverflow == [threw |-> TRUE, value |-> JNull, enumMetadata |-> Null]

\* generateValueForType as call number depth on the stack. The files read
\* here have no import declarations, so the search of the imports at
\* prop-generator.ts:290-308 finds nothing.
RECURSIVE generateValueForTypeAt(_, _, _, _)
\* the loops at prop-generator.ts:320-328 and :337-345, from member k on
RECURSIVE MembersObject(_, _, _, _, _)
MembersObject(members, k, obj, sourceFile, depth) ==
    IF k > Len(members) THEN Value(JObj(obj))
    ELSE LET member == members[k] IN
         IF member.kind = "PropertySignature" /\ member.type # Null
         THEN LET memberResult ==
                    generateValueForTypeAt(member.type, member.name,
                                           sourceFile, depth + 1)
              IN IF memberResult.threw THEN StackOverflow
                 ELSE MembersObject(members, k + 1,
                        Put(obj, Text(member.name), memberResult.value),
                        sourceFile, depth)
         ELSE MembersObject(members, k + 1, obj, sourceFile, depth)

generateValueForTypeAt(type, propName, sourceFile, depth) ==
    IF depth > MaxStack THEN StackOverflow ELSE
    CASE type.kind = "StringKeyword" -> Value(JStr(generateStringValue(propName)))
      [] type.kind = "NumberKeyword" -> Value(generateNumberValue(propName))
      [] type.kind = "BooleanKeyword" -> Value(JBool(FALSE))
      [] type.kind = "FunctionType" -> Value(JFun(Text(propName)))
      [] type.kind = "ArrayType" ->
            LET elementResult ==
                    generateValueForTypeAt(type.elementType, <<>>, sourceFile,
                                           depth + 1)
            IN IF elementResult.threw THEN StackOverflow
               ELSE Value(JArr(<<generateDeepCopy(elementResult.value),
                                 generateDeepCopy(elementResult.value)>>))
      [] type.kind = "UnionType" ->
            IF Len(type.types) > 0
            THEN generateValueForTypeAt(type.types[1], propName, sourceFile,
                                        depth + 1)
            ELSE Value(JNull)
      [] type.kind = "LiteralType" ->
            CASE type.literal.kind = "StringLiteral" ->
                    Value(JStr(type.literal.text))
              [] type.literal.kind = "NumericLiteral" ->
                    Value(JNum(Number(type.literal.text)))
              [] type.literal.kind = "TrueKeyword" -> Value(JBool(TRUE))
              [] type.literal.kind = "FalseKeyword" -> Value(JBool(FALSE))
              [] OTHER -> Value(JNull)
      [] type.kind = "TypeReference" ->
            LET typeName == type.typeName
                interfaceDecl == findInterfaceDeclaration(typeName, sourceFile)
                enumDecl == findEnumDeclaration(typeName, sourceFile)
            IN IF typeName \in {"ReactNode", "ReactElement"} THEN Value(JNull)
               ELSE IF typeName = "Date" THEN Value(JDate)
               ELSE IF typeName = "File" THEN Value(JFile)
               ELSE IF enumDecl # Null
               THEN [threw |-> FALSE,
                     value |-> getEnumFirstValue(enumDecl[1]),
                     enumMetadata |->
                        Some([values |-> getAllEnumValues(enumDecl[1])])]
               ELSE IF interfaceDecl # Null
               THEN MembersObject(interfaceDecl[1].members, 1, EmptyObject,
                                  sourceFile, depth)
               ELSE Value(generateObjectValue(propName))
      [] type.kind = "TypeLiteral" ->
            MembersObject(type.members, 1, EmptyObject, sourceFile, depth)
      [] OTHER -> Value(JNull)

\* the call generateProps and the array branch make
generateValueForType(type, propName, sourceFile) ==
    generateValueForTypeAt(type, propName, sourceFile, 1)

-----------------------------------------------------------------------------
(* prop-generator.ts: serializeProps; preview-loader.tsx: deserializeProps. *)

\* { __type: "function", __name: name }
FunctionMarker(name) ==
    JObj([__type |-> JStr("function"), __name |-> JStr(name)])

\* value.name || "anonymous"
NameOrAnonymous(name) == IF name = "" THEN "anonymous" ELSE name

\* Object.entries of a Date or a File is empty
RECURSIVE serialize(_)
serialize(value) ==
    IF value.t = "function" THEN FunctionMarker(NameOrAnonymous(value.name))
    ELSE IF value.t = "array"
    THEN JArr([i \in 1..Len(value.v) |-> serialize(value.v[i])])
    ELSE IF value.t = "object"
    THEN JObj([k \in DOMAIN value.v |-> serialize(value.v[k])])
    ELSE IF value.t \in {"Date", "File"} THEN JObj(EmptyObject)
    ELSE value

\* a variant that hands the props on as they are
serializeProps_AsIs(propsWithMetadata) ==
    [props |-> propsWithMetadata.props,
     metadata |-> propsWithMetadata.metadata]

serializeProps(propsWithMetadata) ==
    [props |-> serialize(JObj(propsWithMetadata.props)).v,
     metadata |-> propsWithMetadata.metadata]

\* `const fn = (...args) => ...; return fn`: the arrow function is named
\* after the constant it initializes
RECURSIVE deserialize(_)
deserialize(value) ==
    IF value.t = "object" /\ "__type" \in DOMAIN value.v
         /\ value.v["__type"] = JStr("function")
    THEN JFun("fn")
    ELSE IF value.t = "array"
    THEN JArr([i \in 1..Len(value.v) |-> deserialize(value.v[i])])
    ELSE IF value.t = "object"
    THEN JObj([k \in DOMAIN value.v |-> deserialize(value.v[k])])
    ELSE value

deserializeProps(serializedProps) == deserialize(JObj(serializedProps))

-----------------------------------------------------------------------------
(* The files generateProps is given. *)

MaxMembers == 2       \* members of the props interface
MaxEnumMembers == 3   \* members of an enum

StatusEnum ==
    EnumDeclaration("Status", <<EnumMember("Active", StringLiteral("active")),
                                EnumMember("Inactive", Null)>>)
InnerInterface ==
    InterfaceDeclaration("Inner",
        <<PropertySignature(<<"i", "d">>, StringKeyword),
          PropertySignature(<<"c", "o", "u", "n", "t">>, NumberKeyword),
          MethodSignature(<<"r", "e", "s", "e", "t">>)>>)

\* interface Peer { back: Node }
PeerInterface ==
    InterfaceDeclaration("Peer",
        <<PropertySignature(<<"b", "a", "c", "k">>, TypeReferenceNode("Node"))>>)

\* what the member next of interface Node may be declared as
NodeMemberTypes ==
    {TypeReferenceNode("Node"),
     ArrayTypeNode(TypeReferenceNode("Node")),
     UnionTypeNode(<<TypeReferenceNode("Node"), LiteralTypeNode(NullKeyword)>>),
     UnionTypeNode(<<LiteralTypeNode(NullKeyword), TypeReferenceNode("Node")>>),
     UnionTypeNode(<<StringKeyword, ArrayTypeNode(TypeReferenceNode("Node"))>>),
     TypeLiteralNode(<<PropertySignature(<<"t", "o">>, TypeReferenceNode("Node"))>>),
     TypeReferenceNode("Peer"),
     ArrayTypeNode(TypeReferenceNode("Peer")),
     UnionTypeNode(<<StringKeyword, TypeReferenceNode("Peer")>>),
     StringKeyword}

PropsMembers ==
    {PropertySignature(<<"n", "a", "m", "e">>, StringKeyword),
     PropertySignature(<<"a", "g", "e">>, NumberKeyword),
     PropertySignature(<<"n", "a", "m", "e">>, NumberKeyword),
     PropertySignature(<<"a", "g", "e">>, StringKeyword),
     PropertySignature(<<"u", "s", "e", "r", "N", "a", "m", "e">>, StringKeyword),
     PropertySignature(<<"v", "i", "d", "e", "o">>, StringKeyword),
     PropertySignature(<<"p", "a", "g", "e", "T", "i", "t", "l", "e">>, StringKeyword),
     PropertySignature(<<"l", "a", "b", "e", "l">>, StringKeyword),
     PropertySignature(<<"i", "m", "a", "g", "e">>, NumberKeyword),
     PropertySignature(<<"t", "o", "t", "a", "l", "C", "o", "s", "t">>, NumberKeyword),
     PropertySignature(<<"p", "r", "i", "c", "e">>, NumberKeyword),
     PropertySignature(<<"s", "i", "z", "e">>, NumberKeyword),
     PropertySignature(<<"a", "c", "t", "i", "v", "e">>, BooleanKeyword),
     PropertySignature(<<"o", "n", "C", "l", "i", "c", "k">>, FunctionTypeNode),
     PropertySignature(<<"t", "a", "g", "s">>, ArrayTypeNode(StringKeyword)),
     PropertySignature(<<"d", "a", "t", "e", "s">>, ArrayTypeNode(TypeReferenceNode("Date"))),
     PropertySignature(<<"m", "o", "d", "e">>,
        UnionTypeNode(<<LiteralTypeNode(StringLiteral("dark")),
                        LiteralTypeNode(StringLiteral("light"))>>)),
     PropertySignature(<<"l", "e", "v", "e", "l">>, LiteralTypeNode(NumericLiteral(<<"1", "0">>))),
     PropertySignature(<<"f", "l", "a", "g">>, LiteralTypeNode(TrueKeyword)),
     PropertySignature(<<"n", "o", "t", "h", "i", "n", "g">>, LiteralTypeNode(NullKeyword)),
     PropertySignature(<<"i", "c", "o", "n">>, TypeReferenceNode("ReactNode")),
     PropertySignature(<<"s", "t", "a", "t", "u", "s">>, TypeReferenceNode("Status")),
     PropertySignature(<<"i", "n", "n", "e", "r">>, TypeReferenceNode("Inner")),
     PropertySignature(<<"o", "w", "n", "e", "r">>, TypeReferenceNode("Missing")),
     PropertySignature(<<"p", "o", "i", "n", "t">>,
        TypeLiteralNode(<<PropertySignature(<<"x">>, NumberKeyword)>>)),
     PropertySignature(<<"p", "a", "i", "r">>, TupleTypeNode),
     PropertySignature(<<"h", "a", "n", "d", "l", "e", "r", "s">>, ArrayTypeNode(FunctionTypeNode)),
     PropertySignature(<<"g", "r", "i", "d">>, ArrayTypeNode(ArrayTypeNode(NumberKeyword))),
     PropertySignature(<<"i", "t", "e", "m", "s">>, ArrayTypeNode(TypeReferenceNode("Inner"))),
     PropertySignature(<<"s", "t", "a", "t", "e", "s">>, ArrayTypeNode(TypeReferenceNode("Status"))),
     PropertySignature(<<"f", "i", "l", "e", "s">>, ArrayTypeNode(TypeReferenceNode("File"))),
     PropertySignature(<<"a", "c", "t", "i", "o", "n", "s">>,
        ArrayTypeNode(TypeLiteralNode(
            <<PropertySignature(<<"r", "u", "n">>, FunctionTypeNode)>>))),
     PropertySignature(<<"u", "n", "t", "y", "p", "e", "d">>, Null),
     MethodSignature(<<"r", "e", "n", "d", "e", "r">>)}

RECURSIVE ListsUpTo(_, _)
ListsUpTo(S, n) ==
    IF n = 0 THEN {<<>>}
    ELSE LET shorter == ListsUpTo(S, n - 1) IN
         shorter \cup {Append(l, x) : l \in shorter, x \in S}

\* what the initializer of an enum member may be: none, "active", 0, 10, -5
Initializers ==
    {Null, StringLiteral("active"), NumericLiteral(<<"0">>), NumericLiteral(<<"1", "0">>),
     PrefixUnaryExpression("-", NumericLiteral(<<"5">>))}
EnumMemberNames == <<"A", "B", "C", "D">>
EnumMemberLists ==
    {[k \in 1..Len(inits) |-> EnumMember(EnumMemberNames[k], inits[k])] :
        inits \in ListsUpTo(Initializers, MaxEnumMembers)}

Program(interfaceName, statements) ==
    [interfaceName |-> interfaceName, statements |-> statements]

Programs ==
    {Program("Props", <<StatusEnum, InnerInterface,
                        InterfaceDeclaration("Props", members)>>) :
        members \in ListsUpTo(PropsMembers, MaxMembers)}
      \cup
    {Program("Props",
        <<InterfaceDeclaration("Props",
            <<PropertySignature(<<"s", "t", "a", "t", "u", "s">>, TypeReferenceNode("Status"))>>),
          EnumDeclaration("Status", members)>>) :
        members \in EnumMemberLists}
      \cup
    {\* an interface declared twice, an enum declared twice
     Program("Props",
        <<InterfaceDeclaration("Props",
            <<PropertySignature(<<"n", "a", "m", "e">>, StringKeyword),
              PropertySignature(<<"a", "g", "e">>, NumberKeyword)>>),
          InterfaceDeclaration("Props",
            <<PropertySignature(<<"a", "g", "e">>, StringKeyword)>>)>>),
     Program("Props",
        <<EnumDeclaration("Status", <<EnumMember("A", Null)>>),
          InterfaceDeclaration("Props",
            <<PropertySignature(<<"s", "t", "a", "t", "u", "s">>, TypeReferenceNode("Status"))>>),
          StatusEnum>>),
     \* no interface of that name
     Program("Absent", <<StatusEnum, InnerInterface>>)}
      \cup
    {Program("Props",
        <<InterfaceDeclaration("Props",
            <<PropertySignature(<<"l", "a", "b", "e", "l">>, StringKeyword),
              PropertySignature(<<"n", "o", "d", "e">>, TypeReferenceNode("Node"))>>),
          InterfaceDeclaration("Node",
            <<PropertySignature(<<"i", "d">>, StringKeyword),
              PropertySignature(<<"n", "e", "x", "t">>, type)>>)>> \o peers) :
        type \in NodeMemberTypes, peers \in {<<>>, <<PeerInterface>>}}
      \cup
    {\* a date, a file and a callback; a record that looks like a marker
     Program("Props",
        <<InterfaceDeclaration("Props",
            <<PropertySignature(<<"c", "r", "e", "a", "t", "e", "d">>, TypeReferenceNode("Date")),
              PropertySignature(<<"u", "p", "l", "o", "a", "d">>, TypeReferenceNode("File")),
              PropertySignature(<<"o", "n", "S", "a", "v", "e">>, FunctionTypeNode)>>)>>),
     Program("Props",
        <<InterfaceDeclaration("Props",
            <<PropertySignature(<<"_", "_", "t", "y", "p", "e">>,
                                LiteralTypeNode(StringLiteral("function"))),
              PropertySignature(<<"_", "_", "n", "a", "m", "e">>, StringKeyword)>>)>>),
     Program("Props",
        <<InterfaceDeclaration("Props",
            <<PropertySignature(<<"l", "a", "b", "e", "l">>, StringKeyword),
              PropertySignature(<<"m", "a", "r", "k", "e", "r">>,
                TypeLiteralNode(
                    <<PropertySignature(<<"_", "_", "t", "y", "p", "e">>,
                        LiteralTypeNode(StringLiteral("function")))>>))>>)>>)}
      \cup
    {\* the props interface refers to itself
     Program("Props",
        <<InterfaceDeclaration("Props",
            <<PropertySignature(<<"p", "a", "r", "e", "n", "t">>, TypeReferenceNode("Props"))>>)>>)}

-----------------------------------------------------------------------------
(* prop-generator.ts: generateProps. *)

\* the statement visit() is at is the interface asked for
AtPropsInterface ==
    /\ stmtIdx <= Len(program.statements)
    /\ program.statements[stmtIdx].kind = "InterfaceDeclaration"
    /\ program.statements[stmtIdx].name = program.interfaceName

PropsInit ==
    /\ ScanIdle
    /\ CacheIdle
    /\ ServerIdle
    /\ program \in Programs
    /\ genPc = "visit"
    /\ stmtIdx = 1
    /\ memberIdx = 1
    /\ props = EmptyObject
    /\ enumMetadata = EmptyObject
    /\ copies = <<>>
    /\ generated = Pending
    /\ serialized = <<>>
    /\ deserialized = <<>>
    /\ LiveIdle

\* prop-generator.ts:42-54, one iteration of the loop over node.members
GenerateMember ==
    /\ genPc = "visit"
    /\ AtPropsInterface
    /\ memberIdx <= Len(program.statements[stmtIdx].members)
    /\ LET member == program.statements[stmtIdx].members[memberIdx] IN
       IF member.kind = "PropertySignature" /\ member.type # Null
       THEN LET propName == member.name
                generatedValue ==
                    generateValueForType(member.type, propName, program)
            IN IF generatedValue.threw
               THEN /\ generated' = RejectedWith("RangeError")
                    /\ genPc' = "done"
                    /\ UNCHANGED <<props, enumMetadata, copies, memberIdx>>
               ELSE /\ props' = Put(props, Text(propName), generatedValue.value)
                    /\ enumMetadata' =
                          IF generatedValue.enumMetadata # Null
                          THEN Put(enumMetadata, Text(propName),
                                   generatedValue.enumMetadata[1])
                          ELSE enumMetadata
                    /\ copies' =
                          IF member.type.kind = "ArrayType"
                          THEN LET sample ==
                                     generateValueForType(member.type.elementType,
                                                          <<>>, program).value
                               IN <<ObjectsOfCopy(sample, 1, <<>>),
                                    ObjectsOfCopy(sample, 2, <<>>)>>
                          ELSE copies
                    /\ memberIdx' = memberIdx + 1
                    /\ UNCHANGED <<genPc, generated>>
       ELSE /\ memberIdx' = memberIdx + 1
            /\ UNCHANGED <<props, enumMetadata, copies, genPc, generated>>
    /\ UNCHANGED <<program, stmtIdx, serialized, deserialized,
                   scanVars, cacheVars, serverVars>>
    /\ UNCHANGED liveVars

\* prop-generator.ts:55-57: on to the next node; nothing below a statement
\* is an interface declaration
VisitNext ==
    /\ genPc = "visit"
    /\ stmtIdx <= Len(program.statements)
    /\ AtPropsInterface =>
          memberIdx > Len(program.statements[stmtIdx].members)
    /\ stmtIdx' = stmtIdx + 1
    /\ memberIdx' = 1
    /\ UNCHANGED <<program, genPc, props, enumMetadata, copies, generated,
                   serialized, deserialized, scanVars, cacheVars, serverVars>>
    /\ UNCHANGED liveVars

\* prop-generator.ts:59-65
ReturnProps ==
    /\ genPc = "visit"
    /\ stmtIdx > Len(program.statements)
    /\ generated' = Returned([props |-> props,
                              metadata |-> [enums |-> enumMetadata]])
    /\ genPc' = "done"
    /\ UNCHANGED <<program, stmtIdx, memberIdx, props, enumMetadata, copies,
                   serialized, deserialized, scanVars, cacheVars, serverVars>>
    /\ UNCHANGED liveVars

\* server.ts:344-345: the props generated are serialized for the response
SerializeProps ==
    /\ genPc = "done"
    /\ generated.status = "returned"
    /\ serialized' = serializeProps(generated.value)
    /\ genPc' = "serialized"
    /\ UNCHANGED <<program, stmtIdx, memberIdx, props, enumMetadata, copies,
                   generated, deserialized, scanVars, cacheVars, serverVars>>
    /\ UNCHANGED liveVars

\* preview-loader.tsx: the page turns the props of the response, which JSON
\* carries unchanged, back into props for the component
DeserializeProps ==
    /\ genPc = "serialized"
    /\ deserialized' = deserializeProps(serialized.props)
    /\ genPc' = "deserialized"
    /\ UNCHANGED <<program, stmtIdx, memberIdx, props, enumMetadata, copies,
                   generated, serialized, scanVars, cacheVars, serverVars>>
    /\ UNCHANGED liveVars

PropsNext ==
    \/ GenerateMember
    \/ VisitNext
    \/ ReturnProps
    \/ SerializeProps
    \/ DeserializeProps

SpecProps == PropsInit /\ [][PropsNext]_vars

\* interface Props { name: string; age: number }
ExampleInterface ==
    InterfaceDeclaration("Props",
        <<PropertySignature(<<"n", "a", "m", "e">>, StringKeyword),
          PropertySignature(<<"a", "g", "e">>, NumberKeyword)>>)

InterfacesNamed(name) ==
    SelectSeq(program.statements,
              LAMBDA st : st.kind = "InterfaceDeclaration" /\ st.name = name)

\* generateProps has returned for a file that declares Props once, as in the
\* example
ExampleGenerated ==
    /\ genPc = "done"
    /\ generated.status = "returned"
    /\ program.interfaceName = "Props"
    /\ InterfacesNamed("Props") = <<ExampleInterface>>

\* C8 as stated: for interface Props { name: string; age: number },
\* generateProps yields exactly {name: "Mock name", age: 123}.
C8_ExampleAgeFallback ==
    ExampleGenerated =>
        generated.value.props = [name |-> JStr("Mock name"), age |-> JNum(123)]

\* C8: for interface Props { name: string; age: number }, generateProps
\* yields exactly {name: "Mock name", age: 25} and no enum metadata: the field
\* name age contains the keyword "age", whose rule gives 25.
C8_ExampleAgeRule ==
    ExampleGenerated =>
        /\ generated.value.props = [name |-> JStr("Mock name"), age |-> JNum(25)]
        /\ generated.value.metadata.enums = EmptyObject

C8_Witness ==
    /\ ExampleGenerated
    /\ DOMAIN generated.value.props = {"name", "age"}

\* a field of type Status has been generated
StatusGenerated == genPc # "idle" /\ "status" \in DOMAIN enumMetadata
\* the declaration it was generated from, and the pairs recorded for it
StatusMembers == findEnumDeclaration("Status", program)[1].members
StatusValues == enumMetadata["status"].values

\* an initializer that is a number: n or -n
IsNumericInitializer(init) ==
    init # Null /\ init.kind \in {"NumericLiteral", "PrefixUnaryExpression"}
NumericValue(init) ==
    IF init.kind = "NumericLiteral" THEN Number(init.text)
    ELSE 0 - Number(init.operand.text)

\* the value of member k when it has no initializer: that of the closest
\* numeric-valued member before it plus 1, and 0 when there is none
RECURSIVE ImplicitValue(_, _)
ImplicitValue(members, k) ==
    LET numeric == {j \in 1..(k - 1) :
                       \/ members[j].initializer = Null
                       \/ IsNumericInitializer(members[j].initializer)}
    IN IF numeric = {} THEN 0
       ELSE LET j == CHOOSE m \in numeric : \A n \in numeric : n <= m IN
            IF members[j].initializer = Null
            THEN ImplicitValue(members, j) + 1
            ELSE NumericValue(members[j].initializer) + 1

ImplicitValuesRecorded ==
    \A k \in 1..Len(StatusMembers) :
        StatusMembers[k].initializer = Null =>
            \E i \in 1..Len(StatusValues) :
                /\ StatusValues[i].name = StatusMembers[k].name
                /\ StatusValues[i].value = JNum(ImplicitValue(StatusMembers, k))

\* C9: getAllEnumValues gives every member without an initializer the value
\* of the closest preceding numeric-valued member (explicit or implicit)
\* plus 1, and 0 when none precedes it; string-initialized members neither
\* read nor advance the counter.
C9_ImplicitCounter == StatusGenerated => ImplicitValuesRecorded

\* The rule does hold for the enums whose initializers are all string
\* literals or numeric literals.
ImplicitCounterOnLiterals ==
    (/\ StatusGenerated
     /\ \A k \in 1..Len(StatusMembers) :
           \/ StatusMembers[k].initializer = Null
           \/ StatusMembers[k].initializer.kind
                 \in {"StringLiteral", "NumericLiteral"})
      => ImplicitValuesRecorded

\* C10: getAllEnumValues returns exactly one (memberName, value) pair per
\* declared member, in declaration order, whatever the form of the
\* initializers, and the sample value of an enum-typed field is the value of
\* the first declared member.
C10_OnePairPerMember ==
    StatusGenerated =>
        /\ Len(StatusValues) = Len(StatusMembers)
        /\ \A k \in 1..Len(StatusMembers) :
              StatusValues[k].name = StatusMembers[k].name
        /\ Len(StatusMembers) > 0 => props["status"] = StatusValues[1].value

\* the member the loop of generateProps has just handled, if any
JustGenerated ==
    IF genPc = "visit" /\ AtPropsInterface /\ memberIdx > 1
    THEN Some(program.statements[stmtIdx].members[memberIdx - 1])
    ELSE Null

\* the member just handled is a field of an array type
ArrayGenerated ==
    /\ JustGenerated # Null
    /\ JustGenerated[1].kind = "PropertySignature"
    /\ JustGenerated[1].type # Null
    /\ JustGenerated[1].type.kind = "ArrayType"

\* what generateValueForType gives the element type under the empty name
ElementSample ==
    generateValueForType(JustGenerated[1].type.elementType, <<>>, program).value

\* C11: for every array type T[], the value is an array of exactly two
\* elements, each structurally equal to the value generated for T with an
\* empty field name.
C11_TwoElementSamples ==
    ArrayGenerated =>
        props[Text(JustGenerated[1].name)]
            = JArr(<<ElementSample, ElementSample>>)

\* The names a declared type refers to: at every position of the type, or
\* only at the positions generateValueForType goes on to (the type itself,
\* the element type of an array, the first member of a union, the members
\* of an inline record).
RECURSIVE ReferredNames(_, _)
ReferredNames(type, followedOnly) ==
    CASE type.kind = "TypeReference" -> {type.typeName}
      [] type.kind = "ArrayType" -> ReferredNames(type.elementType, followedOnly)
      [] type.kind = "UnionType" ->
            UNION {ReferredNames(type.types[k], followedOnly) :
                      k \in IF followedOnly THEN 1..Len(type.types) \cap {1}
                            ELSE 1..Len(type.types)}
      [] type.kind = "TypeLiteral" ->
            UNION {ReferredNames(type.members[k].type, followedOnly) :
                      k \in {m \in 1..Len(type.members) :
                                /\ type.members[m].kind = "PropertySignature"
                                /\ type.members[m].type # Null}}
      [] OTHER -> {}

MemberReferences(members, followedOnly) ==
    ReferredNames(TypeLiteralNode(members), followedOnly)

\* the interfaces of the file a reference resolves to
ReferableInterfaces ==
    {name \in {program.statements[k].name : k \in 1..Len(program.statements)} :
        /\ LastDeclaration("InterfaceDeclaration", name, program.statements) # Null
        /\ LastDeclaration("EnumDeclaration", name, program.statements) = Null}

InterfaceReferences(name, followedOnly) ==
    MemberReferences(
        LastDeclaration("InterfaceDeclaration", name, program.statements)[1].members,
        followedOnly) \cap ReferableInterfaces

RECURSIVE ReachableFrom(_, _)
ReachableFrom(names, followedOnly) ==
    LET more == names \cup UNION {InterfaceReferences(name, followedOnly) :
                                     name \in names}
    IN IF more = names THEN names ELSE ReachableFrom(more, followedOnly)

\* the interfaces the members of the props interface refer to
RootReferences(followedOnly) ==
    UNION {MemberReferences(program.statements[k].members, followedOnly) :
              k \in {m \in 1..Len(program.statements) :
                        /\ program.statements[m].kind = "InterfaceDeclaration"
                        /\ program.statements[m].name = program.interfaceName}}
      \cap ReferableInterfaces

\* an interface the props interface reaches is on a cycle of references
HasCycle(followedOnly) ==
    \E name \in ReachableFrom(RootReferences(followedOnly), followedOnly) :
        name \in ReachableFrom(InterfaceReferences(name, followedOnly),
                               followedOnly)

UnfollowedCycleReturns ==
    (genPc = "done" /\ HasCycle(FALSE) /\ ~HasCycle(TRUE)) =>
        generated.status = "returned"

\* serializeProps has run on the props generated
Serialized == genPc \in {"serialized", "deserialized"}

RECURSIVE HasFunction(_)
HasFunction(value) ==
    \/ value.t = "function"
    \/ value.t = "array" /\ \E i \in 1..Len(value.v) : HasFunction(value.v[i])
    \/ value.t = "object" /\ \E k \in DOMAIN value.v : HasFunction(value.v[k])

\* out is value with every function replaced by a marker of its name (of
\* "anonymous" in place of an empty name, if so chosen) and every string,
\* number, boolean and null kept
RECURSIVE ReplacesFunctions(_, _, _)
ReplacesFunctions(value, out, anonymousIfEmpty) ==
    CASE value.t = "function" ->
            out = FunctionMarker(IF anonymousIfEmpty
                                 THEN NameOrAnonymous(value.name)
                                 ELSE value.name)
      [] value.t = "array" ->
            /\ out.t = "array"
            /\ Len(out.v) = Len(value.v)
            /\ \A i \in 1..Len(value.v) :
                  ReplacesFunctions(value.v[i], out.v[i], anonymousIfEmpty)
      [] value.t = "object" ->
            /\ out.t = "object"
            /\ DOMAIN out.v = DOMAIN value.v
            /\ \A k \in DOMAIN value.v :
                  ReplacesFunctions(value.v[k], out.v[k], anonymousIfEmpty)
      [] value.t \in {"string", "number", "boolean", "null"} -> out = value
      [] OTHER -> TRUE

RECURSIVE RoundTripEqual(_, _)
RoundTripEqual(value, back) ==
    CASE value.t = "function" -> TRUE
      [] value.t = "array" ->
            /\ back.t = "array"
            /\ Len(back.v) = Len(value.v)
            /\ \A i \in 1..Len(value.v) : RoundTripEqual(value.v[i], back.v[i])
      [] value.t = "object" ->
            /\ back.t = "object"
            /\ DOMAIN back.v = DOMAIN value.v
            /\ \A k \in DOMAIN value.v : RoundTripEqual(value.v[k], back.v[k])
      [] OTHER -> back = value

\* C16: deserializeProps(serializeProps(v).props) is structurally equal to v
\* at every non-function position.
C16_RoundTrip ==
    genPc = "deserialized" =>
        RoundTripEqual(JObj(generated.value.props), deserialized)

\* It is when v holds no Date, no File and no record whose __type is
\* "function".
RECURSIVE RoundTripSafe(_)
RoundTripSafe(value) ==
    CASE value.t = "array" -> \A i \in 1..Len(value.v) : RoundTripSafe(value.v[i])
      [] value.t = "object" ->
            /\ ~("__type" \in DOMAIN value.v
                    /\ value.v["__type"] = JStr("function"))
            /\ \A k \in DOMAIN value.v : RoundTripSafe(value.v[k])
      [] OTHER -> value.t \notin {"Date", "File"}
RoundTripOfPlainValues ==
    (genPc = "deserialized" /\ RoundTripSafe(JObj(generated.value.props))) =>
        RoundTripEqual(JObj(generated.value.props), deserialized)

\* back has, wherever value has a function, a function of the same name,
\* whose marker is the marker of the first serialization
RECURSIVE FunctionNamesKept(_, _)
FunctionNamesKept(value, back) ==
    CASE value.t = "function" ->
            /\ back.t = "function"
            /\ back.name = value.name
            /\ serialize(back) = serialize(value)
      [] value.t = "array" /\ back.t = "array" ->
            \A i \in 1..Len(value.v) : FunctionNamesKept(value.v[i], back.v[i])
      [] value.t = "object" /\ back.t = "object" ->
            \A k \in DOMAIN value.v : FunctionNamesKept(value.v[k], back.v[k])
      [] OTHER -> TRUE

\* C17: the callable deserializeProps creates from a marker has the name of
\* the original function, so serializing again gives the same marker.
C17_NameTagKept ==
    genPc = "deserialized" =>
        FunctionNamesKept(JObj(generated.value.props), deserialized)

\* C12: the two elements of a generated array never alias: no array, record
\* or function object of element 0 is also an object of element 1.
C12_ElementsNeverAlias ==
    (ArrayGenerated /\ copies # <<>>) => copies[1] \cap copies[2] = {}

\* The arrays and records of the two elements are distinct objects.
ElementsShareFunctionsOnly ==
    (ArrayGenerated /\ copies # <<>>) =>
        \A o \in copies[1] \cap copies[2] : o.createdBy = 0

\* The same holds when the element sample is not a Date or a File.
TwoElementSamplesButDateAndFile ==
    (ArrayGenerated /\ ElementSample.t \notin {"Date", "File"}) =>
        props[Text(JustGenerated[1].name)]
            = JArr(<<ElementSample, ElementSample>>)

-----------------------------------------------------------------------------
(* prop-generator.ts: a type found through an import. *)

MaxDiskFiles == 2     \* fs that exist at the start, the component's aside
MaxChanges == 1       \* file changes in a run

\* A path is its directory and its last segment, the segment split at its
\* dots: /app/src/components/Card.tsx has base <<"Card", "tsx">>.
FilePath(dir, base) == [dir |-> dir, base |-> base]
ComponentPath == FilePath(<<"app", "src", "components">>, <<"Card", "tsx">>)

\* A module specifier: "./types" is Specifier(0, <<"types">>), "../types"
\* is Specifier(1, <<"types">>), "./video.types" has base <<"video", "types">>.
Specifier(up, base) == [up |-> up, base |-> base]
Specifiers ==
    {Specifier(0, <<"types">>), Specifier(0, <<"types", "ts">>),
     Specifier(0, <<"video", "types">>), Specifier(1, <<"types">>)}

dirname(filePath) == filePath.dir
resolve(currentDir, importPath) ==
    FilePath(SubSeq(currentDir, 1, Len(currentDir) - importPath.up),
             importPath.base)
\* path.extname: what follows the last dot of the last segment, with the dot;
\* a leading dot alone does not make an extension
extname(filePath) ==
    IF Len(filePath.base) = 1
         \/ (Len(filePath.base) = 2 /\ filePath.base[1] = "")
    THEN ""
    ELSE "." \o filePath.base[Len(filePath.base)]
extensions == <<"tsx", "ts", "jsx", "js">>
\* resolvedPath + ext
WithExtension(filePath, ext) == FilePath(filePath.dir, Append(filePath.base, ext))

\* the paths that may hold a file
DiskPaths ==
    {FilePath(ComponentPath.dir, base) :
        base \in {<<"types">>, <<"types", "tsx">>, <<"types", "ts">>,
                  <<"types", "jsx">>, <<"types", "js">>, <<"video", "types">>,
                  <<"video", "types", "ts">>}}
      \cup {FilePath(<<"app", "src">>, <<"types", "ts">>)}

\* A disk gives every path the text of its file: 0 when there is no file,
\* otherwise one of two texts.
Disks ==
    {d \in [DiskPaths -> 0..2] :
        Cardinality({path \in DiskPaths : d[path] # 0}) <= MaxDiskFiles}
Exists(fs, filePath) == filePath \in DOMAIN fs /\ fs[filePath] # 0

\* ts.createSourceFile on the two texts:
\*   export interface Video { title: string }
\*   export interface Video { views: number }
\* and on the texts of the files reached through the imports of a file:
\*   3  import { User } from "./user"; export interface Video { owner: User }
\*   4  export interface User { name: string }
\*   5  import { User } from "./video"; export { User };
\*   6  export interface Props { title: string }
\*   7  import { Video } from "./video"; export interface User { video: Video }
ImportDeclaration(elements, moduleSpecifier) ==
    [kind |-> "ImportDeclaration", name |-> "", elements |-> elements,
     moduleSpecifier |-> moduleSpecifier]

createSourceFile(filePath, text) ==
    [fileName |-> filePath,
     statements |->
        CASE text = 1 ->
               <<InterfaceDeclaration("Video",
                   <<PropertySignature(<<"t", "i", "t", "l", "e">>, StringKeyword)>>)>>
          [] text = 3 ->
               <<ImportDeclaration({"User"}, Specifier(0, <<"user">>)),
                 InterfaceDeclaration("Video",
                   <<PropertySignature(<<"o", "w", "n", "e", "r">>,
                                       TypeReferenceNode("User"))>>)>>
          [] text = 4 ->
               <<InterfaceDeclaration("User",
                   <<PropertySignature(<<"n", "a", "m", "e">>, StringKeyword)>>)>>
          [] text = 5 ->
               <<ImportDeclaration({"User"}, Specifier(0, <<"video">>))>>
          [] text = 6 ->
               <<InterfaceDeclaration("Props",
                   <<PropertySignature(<<"t", "i", "t", "l", "e">>, StringKeyword)>>)>>
          [] text = 7 ->
               <<ImportDeclaration({"Video"}, Specifier(0, <<"video">>)),
                 InterfaceDeclaration("User",
                   <<PropertySignature(<<"v", "i", "d", "e", "o">>,
                                       TypeReferenceNode("Video"))>>)>>
          [] OTHER ->
               <<InterfaceDeclaration("Video",
                   <<PropertySignature(<<"v", "i", "e", "w", "s">>, NumberKeyword)>>)>>]

\* the component's file:
\*   import { Video } from <specifier>;
\*   interface Props { video: Video }
ComponentSource(specifier) ==
    [fileName |-> ComponentPath,
     statements |->
        <<ImportDeclaration({"Video"}, specifier),
          InterfaceDeclaration("Props",
            <<PropertySignature(<<"v", "i", "d", "e", "o">>, TypeReferenceNode("Video"))>>)>>]

\* the callback goes on after a hit: the last matching import is returned
findImportForType(typeName, sourceFile) ==
    LET hits == {k \in 1..Len(sourceFile.statements) :
                    /\ sourceFile.statements[k].kind = "ImportDeclaration"
                    /\ typeName \in sourceFile.statements[k].elements}
    IN IF hits = {} THEN Null
       ELSE Some(sourceFile.statements[CHOOSE k \in hits :
                                          \A m \in hits : m <= k].moduleSpecifier)

\* a variant that tries the suffixes whatever the specifier looks like
resolveImportPath_AlwaysTries(importPath, currentFilePath, fs) ==
    LET resolved == resolve(dirname(currentFilePath), importPath)
        hits == {k \in 1..Len(extensions) :
                    Exists(fs, WithExtension(resolved, extensions[k]))}
    IN IF hits = {} THEN Null
       ELSE Some(WithExtension(resolved,
                    extensions[CHOOSE k \in hits : \A m \in hits : k <= m]))

resolveImportPath(importPath, currentFilePath, fs) ==
    LET resolved == resolve(dirname(currentFilePath), importPath)
        hits == {k \in 1..Len(extensions) :
                    Exists(fs, WithExtension(resolved, extensions[k]))}
    IN IF extname(resolved) # "" THEN Some(resolved)
       ELSE IF hits = {} THEN Null
       ELSE Some(WithExtension(resolved,
                    extensions[CHOOSE k \in hits : \A m \in hits : k <= m]))

\* loadSourceFile: the tree it returns, if any, and the cache it leaves
loadSourceFile(filePath, parsed, fs) ==
    IF filePath \in DOMAIN parsed
    THEN [sourceFile |-> Some(parsed[filePath]), cache |-> parsed]
    ELSE IF Exists(fs, filePath)
    THEN LET sourceFile == createSourceFile(filePath, fs[filePath]) IN
         [sourceFile |-> Some(sourceFile),
          cache |-> Put(parsed, filePath, sourceFile)]
    ELSE [sourceFile |-> Null, cache |-> parsed]

\* prop-generator.ts:310-332 for a name that is not declared in the
\* referencing file: the value made from the imported file, if one was loaded
\* and declares the name, and the fallback record otherwise
ImportedValue(typeName, propName, imported) ==
    IF imported # Null /\ (findEnumDeclaration(typeName, imported[1]) # Null
                            \/ findInterfaceDeclaration(typeName, imported[1]) # Null)
    THEN generateValueForType(TypeReferenceNode(typeName), propName,
                              imported[1]).value
    ELSE generateObjectValue(propName)

-----------------------------------------------------------------------------
(* prop-generator.ts: generateValueForType over files that import types. *)

MaxImportFiles == 3   \* files on the disk beside the component's

\* the array branch generates a value for the element type
elementType_Self(type) == type
elementType(type) == type.elementType

\* prop-generator.ts:284-308: the declaration of a name referred to in
\* sourceFile, looked for there and then, when currentFilePath is known, in
\* the file that an import of the name in sourceFile leads to, the path being
\* resolved against currentFilePath. Every call of loadSourceFile with the
\* same disk returns the same tree, so the calls are made with an empty
\* sourceFileCache.
ResolveDeclaration(typeName, sourceFile, currentFilePath, fs) ==
    LET interfaceDecl == findInterfaceDeclaration(typeName, sourceFile)
        enumDecl == findEnumDeclaration(typeName, sourceFile)
        here == [interfaceDecl |-> interfaceDecl, enumDecl |-> enumDecl,
                 sourceFileToUse |-> sourceFile]
        importPath == findImportForType(typeName, sourceFile)
    IN IF interfaceDecl # Null \/ enumDecl # Null \/ currentFilePath = Null
       THEN here
       ELSE IF importPath = Null THEN here
       ELSE LET resolvedTo ==
                   resolveImportPath(importPath[1], currentFilePath[1], fs)
            IN IF resolvedTo = Null THEN here
               ELSE LET importedFile ==
                           loadSourceFile(resolvedTo[1], EmptyObject,
                                          fs).sourceFile
                    IN IF importedFile = Null THEN here
                       ELSE [interfaceDecl |->
                                findInterfaceDeclaration(typeName,
                                                         importedFile[1]),
                             enumDecl |->
                                findEnumDeclaration(typeName,
                                                    importedFile[1]),
                             sourceFileToUse |-> importedFile[1]]

\* generateValueForType(type, propName, sourceFile, currentFilePath) as call
\* number depth on the stack, reading the files of fs
RECURSIVE generateValueForTypeFrom(_, _, _, _, _, _)
RECURSIVE MembersObjectFrom(_, _, _, _, _, _, _)
MembersObjectFrom(members, k, obj, sourceFile, currentFilePath, fs, depth) ==
    IF k > Len(members) THEN Value(JObj(obj))
    ELSE LET member == members[k] IN
         IF member.kind = "PropertySignature" /\ member.type # Null
         THEN LET memberResult ==
                    generateValueForTypeFrom(member.type, member.name,
                                             sourceFile, currentFilePath, fs,
                                             depth + 1)
              IN IF memberResult.threw THEN StackOverflow
                 ELSE MembersObjectFrom(members, k + 1,
                        Put(obj, Text(member.name), memberResult.value),
                        sourceFile, currentFilePath, fs, depth)
         ELSE MembersObjectFrom(members, k + 1, obj, sourceFile,
                                currentFilePath, fs, depth)

generateValueForTypeFrom(type, propName, sourceFile, currentFilePath, fs, depth) ==
    IF depth > MaxStack THEN StackOverflow ELSE
    CASE type.kind = "StringKeyword" -> Value(JStr(generateStringValue(propName)))
      [] type.kind = "NumberKeyword" -> Value(generateNumberValue(propName))
      [] type.kind = "BooleanKeyword" -> Value(JBool(FALSE))
      [] type.kind = "FunctionType" -> Value(JFun(Text(propName)))
      [] type.kind = "ArrayType" ->
            LET elementResult ==
                    generateValueForTypeFrom(elementType(type), <<>>, sourceFile,
                                             currentFilePath, fs, depth + 1)
            IN IF elementResult.threw THEN StackOverflow
               ELSE Value(JArr(<<generateDeepCopy(elementResult.value),
                                 generateDeepCopy(elementResult.value)>>))
      [] type.kind = "UnionType" ->
            IF Len(type.types) > 0
            THEN generateValueForTypeFrom(type.types[1], propName, sourceFile,
                                          currentFilePath, fs, depth + 1)
            ELSE Value(JNull)
      [] type.kind = "LiteralType" ->
            CASE type.literal.kind = "StringLiteral" ->
                    Value(JStr(type.literal.text))
              [] type.literal.kind = "NumericLiteral" ->
                    Value(JNum(Number(type.literal.text)))
              [] type.literal.kind = "TrueKeyword" -> Value(JBool(TRUE))
              [] type.literal.kind = "FalseKeyword" -> Value(JBool(FALSE))
              [] OTHER -> Value(JNull)
      [] type.kind = "TypeReference" ->
            LET typeName == type.typeName
                found == ResolveDeclaration(typeName, sourceFile,
                                            currentFilePath, fs)
            IN IF typeName \in {"ReactNode", "ReactElement"} THEN Value(JNull)
               ELSE IF typeName = "Date" THEN Value(JDate)
               ELSE IF typeName = "File" THEN Value(JFile)
               ELSE IF found.enumDecl # Null
               THEN [threw |-> FALSE,
                     value |-> getEnumFirstValue(found.enumDecl[1]),
                     enumMetadata |->
                        Some([values |-> getAllEnumValues(found.enumDecl[1])])]
               ELSE IF found.interfaceDecl # Null
               THEN MembersObjectFrom(found.interfaceDecl[1].members, 1,
                                      EmptyObject, found.sourceFileToUse,
                                      currentFilePath, fs, depth)
               ELSE Value(generateObjectValue(propName))
      [] type.kind = "TypeLiteral" ->
            MembersObjectFrom(type.members, 1, EmptyObject, sourceFile,
                              currentFilePath, fs, depth)
      [] OTHER -> Value(JNull)

\* the directory above the component's
ParentDir == SubSeq(ComponentPath.dir, 1, Len(ComponentPath.dir) - 1)

\* the paths that may hold a file an import leads to
ImportPaths ==
    {FilePath(dir, base) :
        dir \in {ComponentPath.dir, ParentDir},
        base \in {<<"video", "ts">>, <<"user", "ts">>}}
      \cup {FilePath(ComponentPath.dir, <<"types", "ts">>)}

\* A disk gives every path the text of its file, 0 when there is no file.
ImportTexts == 3..7
ImportDisks ==
    {d \in [ImportPaths -> {0} \cup ImportTexts] :
        Cardinality({path \in ImportPaths : d[path] # 0}) <= MaxImportFiles}

Member(name, type) == PropertySignature(name, type)
PropsOf(members) == InterfaceDeclaration("Props", members)
OwnerName == <<"o", "w", "n", "e", "r">>

\* what the component's file Card.tsx may hold, beside the component
CardSources ==
    { \* import { Video } from "./video"; interface Props { video: Video }
      <<ImportDeclaration({"Video"}, Specifier(0, <<"video">>)),
        PropsOf(<<Member(<<"v", "i", "d", "e", "o">>, TypeReferenceNode("Video"))>>)>>,
      \* import { Video } from "../video"; interface Props { video: Video }
      <<ImportDeclaration({"Video"}, Specifier(1, <<"video">>)),
        PropsOf(<<Member(<<"v", "i", "d", "e", "o">>, TypeReferenceNode("Video"))>>)>>,
      \* import { User } from "./user";
      \* interface Props { owner: User; list: User[] }
      <<ImportDeclaration({"User"}, Specifier(0, <<"user">>)),
        PropsOf(<<Member(OwnerName, TypeReferenceNode("User")),
                  Member(<<"l", "i", "s", "t">>,
                         ArrayTypeNode(TypeReferenceNode("User")))>>)>>,
      \* import { User } from "./user.ts"; interface Props { owner: User }
      <<ImportDeclaration({"User"}, Specifier(0, <<"user", "ts">>)),
        PropsOf(<<Member(OwnerName, TypeReferenceNode("User"))>>)>>,
      \* import { User } from "./user"; interface User { id: string }
      \* interface Props { owner: User }
      <<ImportDeclaration({"User"}, Specifier(0, <<"user">>)),
        InterfaceDeclaration("User", <<Member(<<"i", "d">>, StringKeyword)>>),
        PropsOf(<<Member(OwnerName, TypeReferenceNode("User"))>>)>>,
      \* import { Props } from "./types";
      <<ImportDeclaration({"Props"}, Specifier(0, <<"types">>))>>,
      \* interface Props { when: Date; owner: Person | User }
      <<PropsOf(<<Member(<<"w", "h", "e", "n">>, TypeReferenceNode("Date")),
                  Member(OwnerName,
                         UnionTypeNode(<<TypeReferenceNode("Person"),
                                         TypeReferenceNode("User")>>))>>)>> }

\* prop-generator.ts:418-432: parsePropsInterface has read and parsed the
\* component's file and calls generateProps with its path
ImportsInit ==
    /\ ScanIdle
    /\ CacheIdle
    /\ LiveIdle
    /\ disk \in ImportDisks
    /\ componentImport = <<>>
    /\ changes = 0
    /\ pending = 0
    /\ scanning = 0
    /\ sourceFileCache = EmptyObject
    /\ propsCache = Null
    /\ resolvedPath = Null
    /\ importedSourceFile = Null
    /\ response = Null
    /\ \E statements \in CardSources :
          program = [fileName |-> ComponentPath, interfaceName |-> "Props",
                     statements |-> statements]
    /\ genPc = "visit"
    /\ stmtIdx = 1
    /\ memberIdx = 1
    /\ props = EmptyObject
    /\ enumMetadata = EmptyObject
    /\ copies = <<>>
    /\ generated = Pending
    /\ serialized = <<>>
    /\ deserialized = <<>>

\* prop-generator.ts:42-54, one iteration of the loop over node.members, for
\* a component whose path is known
GenerateMemberFrom ==
    /\ genPc = "visit"
    /\ AtPropsInterface
    /\ memberIdx <= Len(program.statements[stmtIdx].members)
    /\ LET member == program.statements[stmtIdx].members[memberIdx] IN
       IF member.kind = "PropertySignature" /\ member.type # Null
       THEN LET propName == member.name
                generatedValue ==
                    generateValueForTypeFrom(member.type, propName, program,
                                             Some(program.fileName), disk, 1)
            IN IF generatedValue.threw
               THEN \* the calls nest without end: generateProps does not return
                    /\ genPc' = "recursing"
                    /\ UNCHANGED <<props, enumMetadata, memberIdx, generated>>
               ELSE /\ props' = Put(props, Text(propName), generatedValue.value)
                    /\ enumMetadata' =
                          IF generatedValue.enumMetadata # Null
                          THEN Put(enumMetadata, Text(propName),
                                   generatedValue.enumMetadata[1])
                          ELSE enumMetadata
                    /\ memberIdx' = memberIdx + 1
                    /\ UNCHANGED <<genPc, generated>>
       ELSE /\ memberIdx' = memberIdx + 1
            /\ UNCHANGED <<props, enumMetadata, genPc, generated>>
    /\ UNCHANGED <<program, stmtIdx, copies, serialized, deserialized>>
    /\ UNCHANGED <<scanVars, cacheVars, serverVars, liveVars>>

ImportsNext ==
    \/ GenerateMemberFrom
    \/ VisitNext
    \/ ReturnProps

SpecImports == ImportsInit /\ [][ImportsNext]_vars

-----------------------------------------------------------------------------
(* server.ts: /api/component-props and the watcher of the source directory. *)

\* filename matches /\.(tsx?|jsx?)$/
Notifies(filePath) ==
    Len(filePath.base) > 1
      /\ filePath.base[Len(filePath.base)] \in {"tsx", "ts", "jsx", "js"}

ServerInit ==
    /\ ScanIdle
    /\ CacheIdle
    /\ PropsIdle
    /\ disk \in Disks
    /\ componentImport \in Specifiers
    /\ changes = 0
    /\ pending = 0
    /\ scanning = 0
    /\ sourceFileCache = EmptyObject
    /\ propsCache = Null
    /\ resolvedPath = Null
    /\ importedSourceFile = Null
    /\ response = Null
    /\ LiveIdle

\* server.ts:320-355 for the component Card, whose propsInterface is Props
ComponentPropsRequest ==
    /\ componentImport # <<>>
    /\ IF propsCache # Null
       THEN /\ response' = propsCache
            /\ UNCHANGED <<sourceFileCache, propsCache, resolvedPath,
                           importedSourceFile>>
       ELSE LET sourceFile == ComponentSource(componentImport)
                importPath == findImportForType("Video", sourceFile)
                path == resolveImportPath(importPath[1], ComponentPath, disk)
                imported == IF path = Null
                          THEN [sourceFile |-> Null, cache |-> sourceFileCache]
                          ELSE loadSourceFile(path[1], sourceFileCache, disk)
                body == serializeProps(
                           [props |->
                               Put(EmptyObject, "video",
                                   ImportedValue("Video",
                                                 <<"v", "i", "d", "e", "o">>,
                                                 imported.sourceFile)),
                            metadata |-> [enums |-> EmptyObject]])
            IN /\ resolvedPath' = path
               /\ importedSourceFile' = imported.sourceFile
               /\ sourceFileCache' = imported.cache
               /\ propsCache' = Some(body)
               /\ response' = Some(body)
    /\ UNCHANGED <<disk, componentImport, changes, pending, scanning,
                   scanVars, cacheVars, propsVars>>
    /\ UNCHANGED liveVars

\* a file is written, created or removed; the watcher is told when its name
\* has one of the four extensions
FileChanges ==
    /\ componentImport # <<>>
    /\ changes < MaxChanges
    /\ \E filePath \in DiskPaths, text \in 0..2 :
          /\ text # disk[filePath]
          /\ disk' = [disk EXCEPT ![filePath] = text]
          /\ pending' = IF Notifies(filePath) THEN pending + 1 ELSE pending
    /\ changes' = changes + 1
    /\ UNCHANGED <<componentImport, scanning, sourceFileCache, propsCache,
                   resolvedPath, importedSourceFile, response,
                   scanVars, cacheVars, propsVars>>
    /\ UNCHANGED liveVars

\* server.ts:120-124: the callback starts and clears the props cache
WatchCallbackStarts ==
    /\ pending > 0
    /\ pending' = pending - 1
    /\ scanning' = scanning + 1
    /\ propsCache' = Null
    /\ UNCHANGED <<disk, componentImport, changes, sourceFileCache,
                   resolvedPath, importedSourceFile, response,
                   scanVars, cacheVars, propsVars>>
    /\ UNCHANGED liveVars

\* server.ts:126-129: the rescan and the save are over
WatchCallbackEnds ==
    /\ scanning > 0
    /\ scanning' = scanning - 1
    /\ UNCHANGED <<disk, componentImport, changes, pending, sourceFileCache,
                   propsCache, resolvedPath, importedSourceFile, response,
                   scanVars, cacheVars, propsVars>>
    /\ UNCHANGED liveVars

ServerNext ==
    \/ ComponentPropsRequest
    \/ FileChanges
    \/ WatchCallbackStarts
    \/ WatchCallbackEnds

SpecServer == ServerInit /\ [][ServerNext]_vars

\* the candidates in the order the claim gives them
Candidates(resolved) ==
    <<resolved>> \o [k \in 1..Len(extensions) |->
                        WithExtension(resolved, extensions[k])]
FirstExisting(candidates, fs) ==
    LET hits == {k \in 1..Len(candidates) : Exists(fs, candidates[k])}
    IN IF hits = {} THEN Null
       ELSE Some(candidates[CHOOSE k \in hits : \A m \in hits : k <= m])

\* a request that is not answered from the props cache
GeneratingRequest == ComponentPropsRequest /\ propsCache = Null

\* C13: the specifier of a named import resolves to the first existing one of
\* the literal path and the literal path with .tsx, .ts, .jsx, .js appended,
\* and is unresolved when none exists, whatever the specifier.
C13_FirstExistingCandidate ==
    [][GeneratingRequest =>
         resolvedPath' =
            FirstExisting(Candidates(resolve(dirname(ComponentPath),
                                             componentImport)), disk)]_vars

\* It does hold for a specifier without a dot when no file has the literal
\* path.
FirstExistingWithoutDot ==
    [][(/\ GeneratingRequest
        /\ Len(componentImport.base) = 1
        /\ ~Exists(disk, resolve(dirname(ComponentPath), componentImport)))
         => resolvedPath' =
               FirstExisting(Candidates(resolve(dirname(ComponentPath),
                                                componentImport)), disk)]_vars

\* the answer made from a tree of the imported file
AnswerFrom(sourceFile) ==
    Some(serializeProps(
            [props |-> Put(EmptyObject, "video",
                           ImportedValue("Video", <<"v", "i", "d", "e", "o">>,
                                         Some(sourceFile))),
             metadata |-> [enums |-> EmptyObject]]))

\* a request made when every notification has been handled, which resolves
\* the type through an import from a file the watcher notifies about
RequestAfterNotifications ==
    /\ ComponentPropsRequest
    /\ pending = 0 /\ scanning = 0
    /\ resolvedPath' # Null
    /\ Notifies(resolvedPath'[1])
    /\ Exists(disk, resolvedPath'[1])

\* C20: once the notifications of the changes of a file have been handled, a
\* props request that resolves a type through an import from that file is
\* answered from the file's current contents, not from a tree parsed before
\* the change.
C20_AnsweredFromCurrentContents ==
    [][RequestAfterNotifications =>
         response' = AnswerFrom(createSourceFile(resolvedPath'[1],
                                                 disk[resolvedPath'[1]]))]_vars

\* It does hold when the file has not been parsed before.
FirstParseFromCurrentContents ==
    [][(RequestAfterNotifications /\ propsCache = Null
          /\ resolvedPath'[1] \notin DOMAIN sourceFileCache)
         => response' = AnswerFrom(createSourceFile(resolvedPath'[1],
                                                    disk[resolvedPath'[1]]))]_vars

\* a tree, once parsed, stays in sourceFileCache as it is
ParsedTreesAreKept ==
    [][\A filePath \in DOMAIN sourceFileCache :
          /\ filePath \in DOMAIN sourceFileCache'
          /\ sourceFileCache'[filePath] = sourceFileCache[filePath]]_vars

-----------------------------------------------------------------------------
(* analyzer.ts: analyzeProject as one step. After findSourceFiles has been *)
(* awaited nothing in analyzeProject awaits: the program is created, the   *)
(* files are scanned and the index is built without another handler       *)
(* running in between.                                                     *)

\* the loop at analyzer.ts:265, from the k-th file on
RECURSIVE ScanLoop(_, _, _, _)
ScanLoop(list, k, usages, comps) ==
    IF k > Len(list) THEN [allUsages |-> usages, components |-> comps]
    ELSE LET sourceFile == list[k]
             found == findTranslationKeys(sourceFile)
             componentName == getComponentName(sourceFile)
         IN IF InNodeModules(sourceFile)
            THEN ScanLoop(list, k + 1, usages, comps)
            ELSE ScanLoop(list, k + 1, usages \o found,
                    IF Truthy(componentName)
                    THEN Append(comps, ComponentInfo(sourceFile,
                                                     componentName[1], found))
                    ELSE comps)

\* the loop at analyzer.ts:290, from the k-th component on
RECURSIVE IndexLoop(_, _, _, _)
IndexLoop(comps, k, k2c, c2k) ==
    IF k > Len(comps)
    THEN [threw |-> FALSE, keyToComponents |-> k2c, componentToKeys |-> c2k]
    ELSE LET component == comps[k]
             indexed == IndexKeys(k2c, component.translationKeys, 1,
                                  component.path)
         IN IF indexed.threw
            THEN [threw |-> TRUE, keyToComponents |-> k2c,
                  componentToKeys |-> c2k]
            ELSE IndexLoop(comps, k + 1, indexed.map,
                           Put(c2k, component.path, component.translationKeys))

\* analyzeProject over the files findSourceFiles listed, Date.now() being now
\* when it returns
analyzeProject(roots, now) ==
    LET list == processRootFiles(roots, 1, <<>>)
        parsed == [k \in 1..Len(list) |->
                     SourceFile(list[k].fileName, list[k].text, list[k].imports)]
        scanned == ScanLoop(parsed, 1, <<>>, <<>>)
        indexed == IndexLoop(scanned.components, 1, EmptyObject, EmptyObject)
    IN IF indexed.threw THEN Rejected
       ELSE Returned([version |-> CACHE_VERSION,
                      timestamp |-> now,
                      translationUsages |-> scanned.allUsages,
                      components |-> scanned.components,
                      keyToComponents |-> indexed.keyToComponents,
                      componentToKeys |-> indexed.componentToKeys])

-----------------------------------------------------------------------------
(* The snapshot as a JavaScript value, and JSON.stringify. *)

JStrings(list) == JArr([k \in 1..Len(list) |-> JStr(list[k])])

\* analyzer.ts:182-188
UsageValue(u) ==
    JObj([key |-> JStr(u.key),
          componentPath |-> JStr(u.componentPath),
          componentName |-> JStr(u.componentName),
          line |-> JNum(u.line),
          column |-> JNum(u.column)])

\* analyzer.ts:276-281; propsInterface || undefined
ComponentValue(c) ==
    JObj([path |-> JStr(c.path),
          name |-> JStr(c.name),
          propsInterface |-> IF Truthy(c.propsInterface)
                             THEN JStr(c.propsInterface[1]) ELSE Undefined,
          translationKeys |-> JStrings(c.translationKeys)])

\* analyzer.ts:305-312
SnapshotValue(snap) ==
    JObj([version |-> JStr(snap.version),
          timestamp |-> JNum(snap.timestamp),
          translationUsages |->
             JArr([k \in 1..Len(snap.translationUsages) |->
                     UsageValue(snap.translationUsages[k])]),
          components |->
             JArr([k \in 1..Len(snap.components) |->
                     ComponentValue(snap.components[k])]),
          keyToComponents |->
             JObj([k \in DOMAIN snap.keyToComponents |->
                     JStrings(snap.keyToComponents[k])]),
          componentToKeys |->
             JObj([k \in DOMAIN snap.componentToKeys |->
                     JStrings(snap.componentToKeys[k])])])

\* JSON.stringify followed by JSON.parse: a property whose value is
\* undefined is left out, an undefined element of an array becomes null
RECURSIVE stringify(_)
stringify(value) ==
    IF value.t = "object"
    THEN JObj([k \in {n \in DOMAIN value.v : value.v[n].t # "undefined"} |->
                 stringify(value.v[k])])
    ELSE IF value.t = "array"
    THEN JArr([k \in 1..Len(value.v) |->
                 IF value.v[k].t = "undefined" THEN JNull
                 ELSE stringify(value.v[k])])
    ELSE value

\* the cache file Bun.write leaves
Written(value) ==
    [exists |-> TRUE, text |-> [form |-> "json", value |-> stringify(value)]]

-----------------------------------------------------------------------------
(* server.ts: start(), the watcher of the source directory, and the        *)
(* handlers of /api/refresh-cache and /api/component-props, interleaved.   *)

MaxRescans == 2     \* watcher callbacks and POST /api/refresh-cache requests
MaxRequests == 1    \* /api/component-props handlers awaiting at one time

\* the source directory holds one file, One.tsx
OneFile(text) ==
    <<[fileName |-> FileNames[1], text |-> text, imports |-> <<>>]>>

\* what One.tsx may hold: a component with props Props, a component with
\* props BProps, a component that uses the key "constructor"
Trees == <<OneFile(<<1>>), OneFile(<<2>>), OneFile(<<5>>)>>

\* analyzeProject over each of the trees, and at a given time
Analyses == [tree \in 1..Len(Trees) |-> analyzeProject(Trees[tree], 0)]
analyzeTree(tree, now) ==
    IF Analyses[tree].status = "returned"
    THEN Returned([Analyses[tree].value EXCEPT !.timestamp = now])
    ELSE Analyses[tree]

\* analysisCache?.components.find(c => c.path === componentPath): the
\* component, none, or a TypeError when components is not an array
FindComponent(value, path) ==
    IF value.t # "object" THEN [threw |-> FALSE, component |-> Null]
    ELSE LET comps == GetProperty(value, "components") IN
         IF comps.t # "array" THEN [threw |-> TRUE, component |-> Null]
         ELSE LET hits == {k \in 1..Len(comps.v) :
                             GetProperty(comps.v[k], "path") = JStr(path)}
              IN [threw |-> FALSE,
                  component |->
                     IF hits = {} THEN Null
                     ELSE Some(comps.v[CHOOSE k \in hits :
                                          \A m \in hits : k <= m])]

\* component.propsInterface, when it is a non-empty string
PropsInterfaceOf(component) ==
    LET name == GetProperty(component, "propsInterface") IN
    IF name.t = "string" /\ name.v # "" THEN Some(name.v) ELSE Null

\* a variant that forgets the snapshot when the scan fails
AssignAwaited_OrNull(outcome, current) ==
    IF outcome.status = "returned" THEN SnapshotValue(outcome.value) ELSE JNull

\* analysisCache = await analyzeProject(...): the assignment is made when the
\* promise resolves, and not at all when it rejects
AssignAwaited(outcome, current) ==
    IF outcome.status = "returned" THEN SnapshotValue(outcome.value) ELSE current

\* a handler that has cleared propsCache and awaits analyzeProject
Task(kind) == [kind |-> kind, pc |-> "scan", doc |-> JNull]
Rescans == SelectSeq(tasks, LAMBDA t : t.kind # "startup")
Count(kind) == Len(SelectSeq(tasks, LAMBDA t : t.kind = kind))

\* the cache file the server may find: none, one that is not JSON, one that
\* holds null, a snapshot of another version, of a version that is a number,
\* and of the current version
StartupCacheFiles ==
    {[exists |-> FALSE], [exists |-> TRUE, text |-> [form |-> "truncated"]],
     [exists |-> TRUE, text |-> [form |-> "json", value |-> JNull]]}
      \cup {[exists |-> TRUE,
             text |-> [form |-> "json", value |-> SnapshotDocument(v, 0)]] :
               v \in Versions \ {JStr("1.0")}}

\* start() has called initializeCache, which has called loadCache
LiveInit ==
    /\ ScanIdle
    /\ PropsIdle
    /\ ServerIdle
    /\ cacheFile \in StartupCacheFiles
    /\ loadPc = "exists"
    /\ fileExists = <<>>
    /\ cache = <<>>
    /\ caught = <<>>
    /\ loaded = Pending
    /\ sourceTree \in 1..Len(Trees)
    /\ startPc = "load"
    /\ analysisCache = JNull
    /\ tasks = <<>>
    /\ requests = <<>>
    /\ clock = 0
    /\ finished = {}

\* a variant that takes whatever loadCache returned
CacheMissing_Never(value) == FALSE

\* server.ts:46: if (!analysisCache), for what loadCache returns
CacheMissing(value) == value = JNull

\* server.ts:44-46: loadCache has returned: its locals are gone, start() has
\* what it returned
StartupLoaded ==
    /\ startPc = "load"
    /\ loadPc = "done"
    /\ analysisCache' = loaded.value
    /\ finished' = finished \cup {loaded.value}
    /\ startPc' = IF CacheMissing(loaded.value) THEN "analyze" ELSE "serving"
    /\ loadPc' = "returned"
    /\ fileExists' = <<>>
    /\ cache' = <<>>
    /\ caught' = <<>>
    /\ UNCHANGED <<cacheFile, loaded>>
    /\ UNCHANGED <<sourceTree, tasks, requests, clock>>
    /\ UNCHANGED <<scanVars, propsVars, serverVars>>

\* server.ts:48-49: analyzeProject returns and saveCache is called, or it
\* throws and start() ends the process
StartupAnalyzed ==
    /\ startPc = "analyze"
    /\ LET outcome == analyzeTree(sourceTree, clock) IN
       IF outcome.status = "returned"
       THEN /\ analysisCache' = AssignAwaited(outcome, analysisCache)
            /\ finished' = finished \cup {SnapshotValue(outcome.value)}
            /\ tasks' = Append(tasks, [kind |-> "startup", pc |-> "save",
                                       doc |-> SnapshotValue(outcome.value)])
            /\ startPc' = "save"
            /\ clock' = clock + 1
       ELSE /\ startPc' = "exited"
            /\ UNCHANGED <<analysisCache, finished, tasks, clock>>
    /\ UNCHANGED <<sourceTree, requests>>
    /\ UNCHANGED <<scanVars, cacheVars, propsVars, serverVars>>

\* a file of the source directory is written: the watcher is told
SourceChanges ==
    /\ startPc = "serving"
    /\ changes + Count("refresh") < MaxRescans
    /\ \E tree \in 1..Len(Trees) :
          /\ tree # sourceTree
          /\ sourceTree' = tree
    /\ changes' = changes + 1
    /\ pending' = pending + 1
    /\ UNCHANGED <<startPc, analysisCache, tasks, requests, clock, finished>>
    /\ UNCHANGED <<disk, componentImport, scanning, sourceFileCache, propsCache,
                   resolvedPath, importedSourceFile, response>>
    /\ UNCHANGED <<scanVars, cacheVars, propsVars>>

\* server.ts:120-126: the watcher's callback clears propsCache and calls
\* analyzeProject
WatchCallback ==
    /\ startPc = "serving"
    /\ pending > 0
    /\ pending' = pending - 1
    /\ propsCache' = Null
    /\ tasks' = Append(tasks, Task("watch"))
    /\ UNCHANGED <<sourceTree, startPc, analysisCache, requests, clock, finished>>
    /\ UNCHANGED <<disk, componentImport, changes, scanning, sourceFileCache,
                   resolvedPath, importedSourceFile, response>>
    /\ UNCHANGED <<scanVars, cacheVars, propsVars>>

\* server.ts:395-402: the refresh handler does the same
RefreshRequest ==
    /\ startPc = "serving"
    /\ changes + Count("refresh") < MaxRescans
    /\ propsCache' = Null
    /\ tasks' = Append(tasks, Task("refresh"))
    /\ UNCHANGED <<sourceTree, startPc, analysisCache, requests, clock, finished>>
    /\ UNCHANGED <<disk, componentImport, changes, pending, scanning,
                   sourceFileCache, resolvedPath, importedSourceFile, response>>
    /\ UNCHANGED <<scanVars, cacheVars, propsVars>>

\* server.ts:126-127, :402-403: analyzeProject returns, analysisCache is
\* assigned and saveCache is called with it; or analyzeProject throws. The
\* refresh handler catches the error; nothing catches the callback's, and
\* the process survives the unhandled rejection or does not.
ScanReturns(i) ==
    /\ startPc = "serving"
    /\ tasks[i].pc = "scan"
    /\ LET outcome == analyzeTree(sourceTree, clock) IN
       /\ analysisCache' = AssignAwaited(outcome, analysisCache)
       /\ IF outcome.status = "returned"
          THEN /\ finished' = finished \cup {SnapshotValue(outcome.value)}
               /\ tasks' = [tasks EXCEPT
                              ![i].pc = "save",
                              ![i].doc = SnapshotValue(outcome.value)]
               /\ clock' = clock + 1
               /\ UNCHANGED startPc
          ELSE /\ tasks' = [tasks EXCEPT ![i].pc = "failed"]
               /\ startPc' \in IF tasks[i].kind = "watch"
                               THEN {"serving", "exited"} ELSE {"serving"}
               /\ UNCHANGED <<finished, clock>>
    /\ UNCHANGED <<sourceTree, requests>>
    /\ UNCHANGED <<scanVars, cacheVars, propsVars, serverVars>>

\* analyzer.ts:343-348: the write of saveCache is done, or has failed and the
\* error is logged; the handler returns and its snapshot goes out of scope
SaveEnds(i) ==
    /\ startPc \in {"save", "serving"}
    /\ tasks[i].pc = "save"
    /\ \E written \in BOOLEAN :
          /\ cacheFile' = IF written THEN Written(tasks[i].doc) ELSE cacheFile
          /\ tasks' = [tasks EXCEPT
                         ![i].pc = "done",
                         ![i].doc = JNull]
    /\ startPc' = IF tasks[i].kind = "startup" THEN "serving" ELSE startPc
    /\ UNCHANGED <<sourceTree, analysisCache, requests, clock, finished>>
    /\ UNCHANGED <<loadPc, fileExists, cache, caught, loaded>>
    /\ UNCHANGED <<scanVars, propsVars, serverVars>>

\* server.ts:330-344: a request for the props of One.tsx. It is answered
\* from propsCache, or the component is looked up in analysisCache and
\* parsePropsInterface is awaited when it has a propsInterface.
PropsRequestStarts ==
    /\ startPc = "serving"
    /\ IF propsCache # Null
       THEN UNCHANGED requests
       ELSE LET found == FindComponent(analysisCache, FileNames[1]) IN
            IF found.threw \/ found.component = Null
                 \/ PropsInterfaceOf(found.component[1]) = Null
            THEN \* the answer is 500, 404 or no props: nothing is kept
                 UNCHANGED requests
            ELSE /\ Len(requests) < MaxRequests
                 /\ requests' = Append(requests,
                                       PropsInterfaceOf(found.component[1])[1])
    /\ UNCHANGED <<sourceTree, startPc, analysisCache, tasks, clock, finished>>
    /\ UNCHANGED <<disk, componentImport, changes, pending, scanning,
                   sourceFileCache, propsCache, resolvedPath, importedSourceFile,
                   response>>
    /\ UNCHANGED <<scanVars, cacheVars, propsVars>>

\* server.ts:344-350: parsePropsInterface has returned; the result is put in
\* propsCache. An entry is represented by the propsInterface it was
\* generated for.
PropsRequestEnds ==
    /\ startPc = "serving"
    /\ requests # <<>>
    /\ propsCache' = Some([propsInterface |-> Head(requests)])
    /\ requests' = Tail(requests)
    /\ UNCHANGED <<sourceTree, startPc, analysisCache, tasks, clock, finished>>
    /\ UNCHANGED <<disk, componentImport, changes, pending, scanning,
                   sourceFileCache, resolvedPath, importedSourceFile, response>>
    /\ UNCHANGED <<scanVars, cacheVars, propsVars>>

LiveNext ==
    \/ LoadCacheExists
    \/ LoadCacheJson
    \/ LoadCacheCheck
    \/ StartupLoaded
    \/ StartupAnalyzed
    \/ SourceChanges
    \/ WatchCallback
    \/ RefreshRequest
    \/ \E i \in 1..Len(tasks) : ScanReturns(i)
    \/ \E i \in 1..Len(tasks) : SaveEnds(i)
    \/ PropsRequestStarts
    \/ PropsRequestEnds

SpecLive == LiveInit /\ [][LiveNext]_vars

-----------------------------------------------------------------------------
(* What the properties of the scanner are stated over. *)

\* every node of a tree
RECURSIVE AllNodes(_)
AllNodes(node) ==
    {node} \cup UNION {AllNodes(node.kids[k]) : k \in 1..Len(node.kids)}

\* the project's own files the scan loop has been through
ScannedFiles ==
    {k \in 1..Len(programFiles) :
        /\ pc = "scan" => k < idx
        /\ programFiles[k].fileName # DependencyFile.fileName}

\* the usages and components recorded for a file
UsagesOf(sourceFile) ==
    SelectSeq(allUsages, LAMBDA u : u.componentPath = sourceFile.fileName)
ComponentsOf(sourceFile) ==
    SelectSeq(components, LAMBDA c : c.path = sourceFile.fileName)

\* the positions in a usage list that carry a node's 1-indexed start position
UsagesAt(usages, node) ==
    {j \in 1..Len(usages) :
        usages[j].line = node.line + 1 /\ usages[j].column = node.col + 1}

\* a declaration qualifies as a component: its body contains JSX
ContainsJsx(node) == \E n \in AllNodes(node) : n.kind \in JsxKinds

\* the names of the qualifying top-level declarations, in source order
QualifyingOfStatement(stmt) ==
    IF stmt.kind = "FunctionDeclaration"
    THEN IF stmt.text # "" /\ ContainsJsx(stmt) THEN <<stmt.text>> ELSE <<>>
    ELSE IF stmt.kind = "VariableStatement"
         THEN LET q == SelectSeq(stmt.kids,
                          LAMBDA d : d.text # "" /\ d.kids # <<>> /\ ContainsJsx(d))
              IN [k \in 1..Len(q) |-> q[k].text]
         ELSE <<>>
RECURSIVE QualifyingFrom(_, _)
QualifyingFrom(stmts, k) ==
    IF k > Len(stmts) THEN <<>>
    ELSE QualifyingOfStatement(stmts[k]) \o QualifyingFrom(stmts, k + 1)
QualifyingDeclarations(sourceFile) == QualifyingFrom(sourceFile.root.kids, 1)

\* C1: a file with two or more qualifying declarations yields exactly one
\* ComponentInfo, and it carries the name of the first qualifying declaration
\* in source order.
C1_FirstDeclarationWins ==
    \A k \in ScannedFiles :
        LET q == QualifyingDeclarations(sourceFiles[k])
            cs == ComponentsOf(sourceFiles[k])
        IN Len(q) >= 2 => Len(cs) = 1 /\ cs[1].name = q[1]

\* a call whose callee is exactly the identifier t ...
IsCallOfT(node) ==
    /\ node.kind = "CallExpression"
    /\ node.kids[1].kind = "Identifier"
    /\ node.kids[1].text = "t"
\* ... and whose first argument is a string literal
FirstArgIsStringLiteral(node) ==
    Len(node.kids) > 1 /\ node.kids[2].kind = "StringLiteral"

\* C2: every call of the identifier t with a string literal as first argument
\* yields exactly one usage, with the literal's text as key, at the call's
\* 1-indexed start position; every other call (t with an identifier, a
\* template literal or no argument, or another callee) yields none.
C2_CallUsages ==
    \A k \in ScannedFiles :
        LET f == sourceFiles[k]
            us == UsagesOf(f)
        IN \A n \in {m \in AllNodes(f.root) : m.kind = "CallExpression"} :
              IF IsCallOfT(n) /\ FirstArgIsStringLiteral(n)
              THEN /\ Cardinality(UsagesAt(us, n)) = 1
                   /\ \A j \in UsagesAt(us, n) : us[j].key = n.kids[2].text
              ELSE UsagesAt(us, n) = {}

\* a file with a recorded call of t and a call of t with a template literal
C2_Witness ==
    \E k \in ScannedFiles :
        LET nodes == AllNodes(sourceFiles[k].root) IN
        /\ \E n \in nodes : /\ IsCallOfT(n) /\ FirstArgIsStringLiteral(n)
                            /\ UsagesAt(UsagesOf(sourceFiles[k]), n) # {}
        /\ \E n \in nodes : /\ IsCallOfT(n) /\ Len(n.kids) > 1
                            /\ n.kids[2].kind = "NoSubstitutionTemplateLiteral"

\* the FormattedMessage elements and self-closing elements of a tree, each
\* given by the node that carries its tag and attributes
FormattedMessages(root) ==
    {n \in AllNodes(root) :
        /\ n.kind \in {"JsxOpeningElement", "JsxSelfClosingElement"}
        /\ n.text = "FormattedMessage"}

\* the literal texts given to attributes named id: directly, or wrapped in a
\* JSX expression
IdLiterals(element) ==
    {a.kids[1].text : a \in {x \in AllNodes(element) :
        /\ x.kind = "JsxAttribute" /\ x.text = "id" /\ x.kids # <<>>
        /\ x.kids[1].kind = "StringLiteral"}}
    \cup
    {a.kids[1].kids[1].text : a \in {x \in AllNodes(element) :
        /\ x.kind = "JsxAttribute" /\ x.text = "id" /\ x.kids # <<>>
        /\ x.kids[1].kind = "JsxExpression" /\ x.kids[1].kids # <<>>
        /\ x.kids[1].kids[1].kind = "StringLiteral"}}

\* C3: every FormattedMessage element whose id attribute is a string literal,
\* or a JSX expression wrapping one, yields exactly one usage, with the
\* literal's text as key (the empty text included), at the element's
\* 1-indexed start position.
C3_FormattedMessageUsages ==
    \A k \in ScannedFiles :
        LET f == sourceFiles[k]
            us == UsagesOf(f)
        IN \A e \in FormattedMessages(f.root) :
              \A text \in IdLiterals(e) :
                 /\ Cardinality(UsagesAt(us, e)) = 1
                 /\ \A j \in UsagesAt(us, e) : us[j].key = text

\* the function a top-level statement declares under a name: the function
\* declaration itself, or the function (arrow function or function
\* expression) that initializes a variable of that name
FunctionKinds == {"ArrowFunction", "FunctionExpression"}
FunctionsDeclaredBy(stmt, name) ==
    IF stmt.kind = "FunctionDeclaration"
    THEN IF stmt.text = name THEN <<stmt>> ELSE <<>>
    ELSE IF stmt.kind = "VariableStatement"
         THEN LET d == SelectSeq(stmt.kids,
                          LAMBDA v : /\ v.text = name /\ v.kids # <<>>
                                     /\ v.kids[1].kind \in FunctionKinds)
              IN [k \in 1..Len(d) |-> d[k].kids[1]]
         ELSE <<>>
RECURSIVE FunctionsDeclaredFrom(_, _, _)
FunctionsDeclaredFrom(stmts, k, name) ==
    IF k > Len(stmts) THEN <<>>
    ELSE FunctionsDeclaredBy(stmts[k], name)
           \o FunctionsDeclaredFrom(stmts, k + 1, name)
FunctionsDeclared(sourceFile, name) ==
    FunctionsDeclaredFrom(sourceFile.root.kids, 1, name)

\* the name of the type a function's first parameter is annotated with, when
\* the annotation is a direct reference to a named type
DirectTypeReference(fn) ==
    LET ps == SelectSeq(fn.kids, LAMBDA n : n.kind = "Parameter") IN
    IF ps # <<>> /\ ps[1].kids # <<>> /\ ps[1].kids[1].kind = "TypeReference"
    THEN Some(ps[1].kids[1].text)
    ELSE Null

\* C18: the propsInterface of the component recorded for a file is the name
\* of the type its first parameter is annotated with when the annotation is a
\* direct reference to a named type, and null otherwise, whether the
\* component is a function declaration or a variable initialized with an
\* arrow function or a function expression.
C18_PropsInterfaceOfWinner ==
    \A k \in ScannedFiles :
        LET cs == ComponentsOf(sourceFiles[k]) IN
        \A m \in 1..Len(cs) :
            LET fns == FunctionsDeclared(sourceFiles[k], cs[m].name) IN
            Len(fns) = 1 => cs[m].propsInterface = DirectTypeReference(fns[1])

\* the same, for the components that are function declarations or variables
\* initialized with an arrow function
PropsInterfaceOfDeclarationsAndArrows ==
    \A k \in ScannedFiles :
        LET cs == ComponentsOf(sourceFiles[k]) IN
        \A m \in 1..Len(cs) :
            LET fns == FunctionsDeclared(sourceFiles[k], cs[m].name) IN
            Len(fns) = 1 /\ fns[1].kind # "FunctionExpression"
                => cs[m].propsInterface = DirectTypeReference(fns[1])

-----------------------------------------------------------------------------
(* What the properties of the snapshot are stated over. *)

Snapshot == result.value

\* p occurs in the list a map holds under k
Holds(map, k, p) == k \in DOMAIN map /\ \E j \in 1..Len(map[k]) : map[k][j] = p

NoDuplicates(list) ==
    \A a, b \in 1..Len(list) : list[a] = list[b] => a = b

\* list holds the distinct elements of keys, ordered by first occurrence
FirstIndex(keys, key) ==
    CHOOSE a \in 1..Len(keys) :
        keys[a] = key /\ \A b \in 1..(a - 1) : keys[b] # key
IsFirstOccurrenceOrder(list, keys) ==
    /\ NoDuplicates(list)
    /\ {list[a] : a \in 1..Len(list)} = {keys[a] : a \in 1..Len(keys)}
    /\ \A a, b \in 1..Len(list) :
          a < b => FirstIndex(keys, list[a]) < FirstIndex(keys, list[b])

SnapshotKeys(snap) ==
    DOMAIN snap.keyToComponents
      \cup {snap.translationUsages[j].key : j \in 1..Len(snap.translationUsages)}
      \cup UNION {{c.translationKeys[j] : j \in 1..Len(c.translationKeys)} :
                    c \in {snap.components[m] : m \in 1..Len(snap.components)}}
SnapshotPaths(snap) ==
    DOMAIN snap.componentToKeys
      \cup {snap.translationUsages[j].componentPath :
              j \in 1..Len(snap.translationUsages)}
      \cup {snap.components[m].path : m \in 1..Len(snap.components)}
      \cup UNION {{snap.keyToComponents[k][j] :
                     j \in 1..Len(snap.keyToComponents[k])} :
                    k \in DOMAIN snap.keyToComponents}

\* C4: in a returned snapshot the two index maps and the components'
\* translationKeys agree on every (key, path) pair; translationKeys holds the
\* distinct keys of the file's usages in first-occurrence order; no list of
\* either map holds a duplicate.
C4_IndexConsistent ==
    result.status = "returned" =>
        LET snap == Snapshot
            comps == {snap.components[m] : m \in 1..Len(snap.components)}
            usagesOf(p) == SelectSeq(snap.translationUsages,
                                     LAMBDA u : u.componentPath = p)
        IN /\ \A k \in SnapshotKeys(snap), p \in SnapshotPaths(snap) :
                 /\ Holds(snap.keyToComponents, k, p)
                      <=> Holds(snap.componentToKeys, p, k)
                 /\ Holds(snap.componentToKeys, p, k)
                      <=> \E c \in comps :
                             /\ c.path = p
                             /\ \E j \in 1..Len(c.translationKeys) :
                                   c.translationKeys[j] = k
           /\ \A c \in comps :
                 IsFirstOccurrenceOrder(c.translationKeys,
                    [j \in 1..Len(usagesOf(c.path)) |-> usagesOf(c.path)[j].key])
           /\ \A k \in DOMAIN snap.keyToComponents :
                 NoDuplicates(snap.keyToComponents[k])
           /\ \A p \in DOMAIN snap.componentToKeys :
                 NoDuplicates(snap.componentToKeys[p])

\* a snapshot in which two components share a key and a component uses one
\* key at two places
C4_Witness ==
    /\ result.status = "returned"
    /\ \E k \in DOMAIN Snapshot.keyToComponents :
          Len(Snapshot.keyToComponents[k]) >= 2
    /\ \E m \in 1..Len(Snapshot.components) :
          Len(SelectSeq(Snapshot.translationUsages,
                LAMBDA u : u.componentPath = Snapshot.components[m].path))
            > Len(Snapshot.components[m].translationKeys)

\* C5 as stated: in a returned snapshot, every usage's key is in
\* keyToComponents and its list contains the usage's file.
C5_EveryUsageIndexed ==
    result.status = "returned" =>
        \A j \in 1..Len(Snapshot.translationUsages) :
            LET u == Snapshot.translationUsages[j]
            IN Holds(Snapshot.keyToComponents, u.key, u.componentPath)

\* the file of a usage is one a ComponentInfo was emitted for
HasComponent(snap, path) ==
    \E m \in 1..Len(snap.components) : snap.components[m].path = path

\* C5 (amended): in a returned snapshot, every usage whose file is the path of
\* an entry of components has its key in keyToComponents, with a list that
\* contains that file.
C5_ComponentUsagesIndexed ==
    result.status = "returned" =>
        \A j \in 1..Len(Snapshot.translationUsages) :
            LET u == Snapshot.translationUsages[j]
            IN HasComponent(Snapshot, u.componentPath)
                 => Holds(Snapshot.keyToComponents, u.key, u.componentPath)

\* a snapshot with an indexed usage in a component's file and a usage in a
\* file without component
C5_Witness ==
    /\ result.status = "returned"
    /\ \E j \in 1..Len(Snapshot.translationUsages) :
          LET u == Snapshot.translationUsages[j]
          IN /\ HasComponent(Snapshot, u.componentPath)
             /\ Holds(Snapshot.keyToComponents, u.key, u.componentPath)
    /\ \E j \in 1..Len(Snapshot.translationUsages) :
          ~HasComponent(Snapshot, Snapshot.translationUsages[j].componentPath)

\* the position of a file in a list of files
FileIndex(list, path) ==
    CHOOSE k \in 1..Len(list) : list[k].fileName = path

\* a is at or before b in source order
AtOrBefore(a, b) ==
    a.line < b.line \/ (a.line = b.line /\ a.column <= b.column)

\* the components and usages of a snapshot follow the order of a list of
\* files, and the usages of one file are in source order
OrderedBy(snap, list) ==
    /\ \A a, b \in 1..Len(snap.components) :
          a < b => FileIndex(list, snap.components[a].path)
                     < FileIndex(list, snap.components[b].path)
    /\ \A a, b \in 1..Len(snap.translationUsages) :
          a < b =>
             LET ua == snap.translationUsages[a]
                 ub == snap.translationUsages[b]
             IN /\ FileIndex(list, ua.componentPath)
                     <= FileIndex(list, ub.componentPath)
                /\ ua.componentPath = ub.componentPath => AtOrBefore(ua, ub)

\* C19: in a returned snapshot, components and usages are in the order in
\* which findSourceFiles returned the files, whichever file imports which,
\* and the usages of one file are in source order (non-decreasing line and
\* column).
C19_DiscoveryOrder ==
    result.status = "returned" => OrderedBy(Snapshot, files)

\* the same, with the order of program.getSourceFiles() for the order of
\* findSourceFiles
ProgramOrder ==
    result.status = "returned" => OrderedBy(Snapshot, sourceFiles)

\* the same as C19, for the projects none of whose files imports another
DiscoveryOrderWithoutImports ==
    (/\ result.status = "returned"
     /\ \A k \in 1..Len(files) :
           \A m \in 1..Len(files[k].imports) :
              files[k].imports[m] = DependencyFile.fileName)
        => OrderedBy(Snapshot, files)

\* analyzeProject as one step returns what its loops return step by step
AnalyzeProjectAgrees ==
    /\ result.status = "returned" =>
          analyzeProject(files, result.value.timestamp) = result
    /\ result.status = "threw" => analyzeProject(files, 0) = result

\* C6: analyzeProject always returns a snapshot: it never throws, whatever the
\* texts of the translation keys found in the files.
C6_AlwaysReturns == result.status # "threw"

-----------------------------------------------------------------------------
(* The running server: analysisCache, propsCache and the cache file. *)

\* a rescan that is awaiting analyzeProject
Scanning(t) == t.kind # "startup" /\ t.pc = "scan"
\* a handler that is awaiting the write of saveCache
Saving(t) == t.pc = "save"

\* a rescan fails in this step
ScanFailsAt(i) == tasks[i].pc = "scan" /\ tasks'[i].pc = "failed"

\* C21: whatever the interleaving of props requests, watcher callbacks and
\* refresh requests, the analysisCache a handler reads is null or a value
\* that a finished loadCache or analyzeProject call returned, and a rescan
\* that fails leaves analysisCache as it was.
C21_NoHalfBuiltSnapshot ==
    /\ [](analysisCache \in finished \cup {JNull})
    /\ [][\A i \in 1..Len(tasks) :
             ScanFailsAt(i) => analysisCache' = analysisCache]_vars

\* a rescan has failed and the server still holds the snapshot it had
C21_Witness ==
    /\ startPc = "serving"
    /\ analysisCache \in finished \ {JNull}
    /\ \E i \in 1..Len(tasks) : tasks[i].pc = "failed"

\* C22: rescans are never interleaved: a watcher notification or a refresh
\* request that arrives while analyzeProject is running waits for it or
\* replaces it, so at most one analyzeProject call is in progress at a time.
C22_OneScanAtATime ==
    Cardinality({i \in 1..Len(tasks) : Scanning(tasks[i])}) <= 1

\* the first analysis of a server that found no usable cache file
FirstAnalysis == analyzeTree(sourceTree, 0)

\* the version of a JSON document that is a string other than CACHE_VERSION
OtherVersion(file) ==
    /\ file.exists
    /\ file.text.form = "json"
    /\ GetProperty(file.text.value, "version").t = "string"
    /\ GetProperty(file.text.value, "version") # JStr(CACHE_VERSION)

\* C23: once initializeCache has completed, analysisCache has the version
\* CACHE_VERSION; startup runs analyzeProject and then saveCache exactly when
\* loadCache returned null (file missing, not JSON, or of another version), and
\* then analysisCache is what analyzeProject returned, with nothing of the
\* file in it; otherwise it is what loadCache returned.
C23_StartupUsesMatchingVersion ==
    /\ startPc = "serving" =>
          GetProperty(analysisCache, "version") = JStr(CACHE_VERSION)
    /\ startPc \in {"save", "serving"} =>
          (Count("startup") = 1 <=> loaded = Returned(JNull))
    /\ (startPc = "exited" /\ tasks = <<>>) =>
          (loaded = Returned(JNull) /\ FirstAnalysis.status = "threw")
    /\ startPc = "save" =>
          /\ analysisCache = SnapshotValue(FirstAnalysis.value)
          /\ \E i \in 1..Len(tasks) :
                tasks[i] = [kind |-> "startup", pc |-> "save", doc |-> analysisCache]
    /\ (startPc = "serving" /\ tasks = <<>>) => loaded = Returned(analysisCache)

\* the cache file has another version and the server has analyzed the
\* project and is saving the result
C23_Witness ==
    /\ startPc = "save"
    /\ OtherVersion(cacheFile)
    /\ loaded = Returned(JNull)

\* the propsInterface the visible analysisCache records for One.tsx
RecordedPropsInterface ==
    LET found == FindComponent(analysisCache, FileNames[1]) IN
    IF found.threw \/ found.component = Null THEN Null
    ELSE PropsInterfaceOf(found.component[1])

\* C28: whenever no scan is in progress, the entry of propsCache was
\* generated from the propsInterface that the visible analysisCache records
\* for the component; a props request served while a rescan is running leaves
\* no entry of the replaced snapshot behind.
C28_PropsCacheOfVisibleSnapshot ==
    (/\ startPc = "serving"
     /\ \A i \in 1..Len(tasks) : ~Scanning(tasks[i])
     /\ propsCache # Null)
        => RecordedPropsInterface = Some(propsCache[1].propsInterface)

\* no handler is awaiting analyzeProject or the write of saveCache
Quiet == \A i \in 1..Len(tasks) : ~Scanning(tasks[i]) /\ ~Saving(tasks[i])

\* the cache file holds the JSON text of analysisCache
FileHoldsAnalysisCache ==
    /\ cacheFile.exists
    /\ cacheFile.text.form = "json"
    /\ cacheFile.text.value = stringify(analysisCache)

\* loadCache of the file saveCache wrote for a snapshot returns the snapshot
\* as JSON.parse(JSON.stringify(...)) gives it
LoadsWhatWasSaved(value) ==
    /\ ~ReadJson(Written(value)).threw
    /\ ReadJson(Written(value)).value = stringify(value)
    /\ VersionMatches(ReadJson(Written(value)).value)

\* C29: in a running server, whenever no scan and no cache write is in
\* progress, the cache file holds the snapshot that analysisCache holds,
\* whatever the interleaving of watcher callbacks and refresh requests; and
\* loadCache of a file that saveCache wrote for a snapshot of analyzeProject
\* returns an equal snapshot.
C29_FileEqualsMemory ==
    /\ (startPc = "serving" /\ Quiet /\ Rescans # <<>>) => FileHoldsAnalysisCache
    /\ \A i \in 1..Len(tasks) :
          tasks[i].doc # JNull => LoadsWhatWasSaved(tasks[i].doc)

\* what was saved is loaded back
SavedIsLoaded ==
    \A i \in 1..Len(tasks) :
       tasks[i].doc # JNull => LoadsWhatWasSaved(tasks[i].doc)

-----------------------------------------------------------------------------
(* generateProps over files that import types. *)

\* generateProps has returned the props of the component
PropsReturned == genPc = "done" /\ generated.status = "returned"

SpecialNames == {"ReactNode", "ReactElement", "Date", "File"}

\* the members of an interface that refer to a type by its name
NamedMembers(members) ==
    {k \in 1..Len(members) :
        /\ members[k].kind = "PropertySignature"
        /\ members[k].type # Null
        /\ members[k].type.kind = "TypeReference"}

\* The places where the generator meets a named type: the members of Props
\* in the component's file, and the members of the interfaces those resolve
\* to, in the file the interface was found in. A site is the field name, the
\* type name, the referencing file and the value generated there.
PropsDeclaration == findInterfaceDeclaration("Props", program)
TopSites ==
    IF PropsDeclaration = Null THEN {}
    ELSE {[name |-> PropsDeclaration[1].members[k].name,
           typeName |-> PropsDeclaration[1].members[k].type.typeName,
           file |-> program,
           value |-> props[Text(PropsDeclaration[1].members[k].name)]] :
             k \in NamedMembers(PropsDeclaration[1].members)}
SitesBelow(site) ==
    LET found == ResolveDeclaration(site.typeName, site.file,
                                    Some(program.fileName), disk)
    IN IF site.typeName \in SpecialNames \/ found.enumDecl # Null
            \/ found.interfaceDecl = Null
       THEN {}
       ELSE {[name |-> found.interfaceDecl[1].members[k].name,
              typeName |-> found.interfaceDecl[1].members[k].type.typeName,
              file |-> found.sourceFileToUse,
              value |-> site.value.v[Text(found.interfaceDecl[1].members[k].name)]] :
                k \in NamedMembers(found.interfaceDecl[1].members)}
Sites == TopSites \cup UNION {SitesBelow(site) : site \in TopSites}

\* the name is declared neither in the referencing file nor in the file that
\* a matching import of the referencing file names, the specifier being
\* resolved against resolveAgainst
UnresolvedAgainst(site, resolveAgainst) ==
    LET found == ResolveDeclaration(site.typeName, site.file,
                                    Some(resolveAgainst), disk)
    IN /\ site.typeName \notin SpecialNames
       /\ found.interfaceDecl = Null
       /\ found.enumDecl = Null

\* the referencing file declares the name
DeclaredLocally(site) ==
    \/ findInterfaceDeclaration(site.typeName, site.file) # Null
    \/ findEnumDeclaration(site.typeName, site.file) # Null

\* the value made from the declarations of the referencing file alone
LocalValue(site) ==
    generateValueForTypeFrom(TypeReferenceNode(site.typeName), site.name,
                             site.file, Null, disk, 1).value

\* C24: a named type that is not special, not declared in the referencing
\* file and not declared in the file that a matching named import of the
\* referencing file names is unresolved: that file's own imports are not
\* followed, nothing is thrown, and the value is the record whose one field
\* "mock" + the capitalized field name holds "mock-value". A declaration in the
\* referencing file is used whatever the imports say.
C24_UnresolvedIsMockRecord ==
    PropsReturned =>
       \A site \in Sites :
          /\ UnresolvedAgainst(site, site.file.fileName)
                => site.value = generateObjectValue(site.name)
          /\ (DeclaredLocally(site) /\ site.typeName \notin SpecialNames)
                => site.value = LocalValue(site)

\* the same, the specifier being resolved against the component's path
\* wherever the import declaration is
UnresolvedAgainstComponentIsMockRecord ==
    PropsReturned =>
       \A site \in Sites :
          /\ UnresolvedAgainst(site, program.fileName)
                => site.value = generateObjectValue(site.name)
          /\ (DeclaredLocally(site) /\ site.typeName \notin SpecialNames)
                => site.value = LocalValue(site)

\* the names of the members of an interface that get a value
TypedMemberNames(decl) ==
    {Text(decl.members[k].name) :
        k \in {m \in 1..Len(decl.members) :
                 /\ decl.members[m].kind = "PropertySignature"
                 /\ decl.members[m].type # Null}}

\* the value at a site is a record made from the interface that the name
\* resolves to when the specifier is resolved against resolveAgainst
MadeFromInterfaceAgainst(site, resolveAgainst) ==
    LET found == ResolveDeclaration(site.typeName, site.file,
                                    Some(resolveAgainst), disk)
    IN (/\ site.typeName \notin SpecialNames
        /\ found.enumDecl = Null
        /\ found.interfaceDecl # Null)
          => /\ site.value.t = "object"
             /\ DOMAIN site.value.v = TypedMemberNames(found.interfaceDecl[1])

\* C25: a name that is resolved through an import declaration of a file F is
\* looked for in the file that the specifier names relative to the directory
\* of F, also when F is not the component's file but a file reached through an
\* earlier import, whose interface is being generated.
C25_ResolvedAgainstImportingFile ==
    PropsReturned =>
       \A site \in Sites : MadeFromInterfaceAgainst(site, site.file.fileName)

\* the same, relative to the directory of the component's file
ResolvedAgainstComponentFile ==
    PropsReturned =>
       \A site \in Sites : MadeFromInterfaceAgainst(site, program.fileName)

\* the file declares no interface Props and imports the name from a file that
\* declares it
ImportedPropsInterface ==
    LET found == ResolveDeclaration("Props", program, Some(program.fileName),
                                    disk)
    IN IF PropsDeclaration = Null /\ found.interfaceDecl # Null
       THEN found.interfaceDecl
       ELSE Null

\* C26: when the props interface is not declared in the component's file but
\* imported there by name, generateProps finds the declaration through the
\* import and returns props with one value for each typed member of it, not
\* the empty record.
C26_ImportedPropsInterface ==
    (PropsReturned /\ ImportedPropsInterface # Null)
       => /\ DOMAIN generated.value.props
                = TypedMemberNames(ImportedPropsInterface[1])
          /\ generated.value.props # EmptyObject

\* what it returns then
ImportedPropsInterfaceGivesNothing ==
    (PropsReturned /\ ImportedPropsInterface # Null)
       => generated.value.props = EmptyObject

\* the interfaces there may be: one in each file beside the component's, and
\* those of the component's file
MaxDeclarations == MaxImportFiles + 3

\* From a type met in sourceFile there is a chain of n references to
\* interfaces, each declared by a member of the one before: followed through
\* the members of interfaces and inline records, the element types of arrays,
\* the first member of unions, and names resolved in the file or through its
\* imports.
RECURSIVE ReferenceChain(_, _, _)
ReferenceChain(type, sourceFile, n) ==
    IF n = 0 THEN TRUE
    ELSE CASE type.kind = "ArrayType" ->
                 ReferenceChain(type.elementType, sourceFile, n)
           [] type.kind = "UnionType" ->
                 Len(type.types) > 0
                   /\ ReferenceChain(type.types[1], sourceFile, n)
           [] type.kind = "TypeLiteral" ->
                 \E k \in 1..Len(type.members) :
                    /\ type.members[k].kind = "PropertySignature"
                    /\ type.members[k].type # Null
                    /\ ReferenceChain(type.members[k].type, sourceFile, n)
           [] type.kind = "TypeReference" ->
                 LET found == ResolveDeclaration(type.typeName, sourceFile,
                                                 Some(program.fileName), disk)
                 IN /\ type.typeName \notin SpecialNames
                    /\ found.enumDecl = Null
                    /\ found.interfaceDecl # Null
                    /\ \E k \in 1..Len(found.interfaceDecl[1].members) :
                          /\ found.interfaceDecl[1].members[k].kind
                                = "PropertySignature"
                          /\ found.interfaceDecl[1].members[k].type # Null
                          /\ ReferenceChain(found.interfaceDecl[1].members[k].type,
                                            found.sourceFileToUse, n - 1)
           [] OTHER -> FALSE

\* The type graph reachable from the props interface has no cycle: a chain
\* longer than the number of interfaces passes through one of them twice.
Acyclic ==
    ~ReferenceChain(TypeReferenceNode(program.interfaceName), program,
                    MaxDeclarations + 1)

\* C30: generateProps terminates and returns a props record for every props
\* interface whose reachable type graph has no cycle, whatever files the
\* imports lead to and whether or not those files exist: the calls of
\* generateValueForType never nest without end, every step moves on, and
\* generateProps ends by returning the props. (While it visits the file one
\* of GenerateMemberFrom, VisitNext and ReturnProps can be taken.)
\* Every step of generateProps moves it on: to the next member, to the
\* next statement, or to its end.
Position ==
    IF genPc = "visit" THEN stmtIdx * (MaxDeclarations + 1) + memberIdx
    ELSE (MaxDeclarations + 1) * (MaxDeclarations + 1)
CycleNeverReturns == ~Acyclic => genPc # "done"

-----------------------------------------------------------------------------
(* analyzeProject over the files findSourceFiles lists. *)

\* the files findSourceFiles returned
Discovered == {files[k].fileName : k \in 1..Len(files)}

\* the files that have a component or a usage in the snapshot
Contributors ==
    {Snapshot.components[k].path : k \in 1..Len(Snapshot.components)}
      \cup {Snapshot.translationUsages[k].componentPath :
              k \in 1..Len(Snapshot.translationUsages)}

\* the snapshot holds what the scan of the file finds in it
ScannedIntoSnapshot(file) ==
    LET sourceFile == SourceFile(file.fileName, file.text, file.imports) IN
    /\ SelectSeq(Snapshot.translationUsages,
                 LAMBDA u : u.componentPath = file.fileName)
          = findTranslationKeys(sourceFile)
    /\ Truthy(getComponentName(sourceFile)) =>
          \E k \in 1..Len(Snapshot.components) :
             Snapshot.components[k].path = file.fileName

\* no file other than those discovered contributes
OnlyDiscoveredContribute == Contributors \subseteq Discovered
\* every file discovered is scanned
EveryDiscoveredIsScanned ==
    \A k \in 1..Len(files) : ScannedIntoSnapshot(files[k])

\* C27: the files that contribute components or usages to a snapshot are
\* exactly those findSourceFiles returned: each of them is scanned, and no
\* file of node_modules, dist, build or .git, and no file outside the scanned
\* directory, contributes, even when a discovered file imports it.
C27_ExactlyTheDiscoveredFiles ==
    result.status = "returned" =>
       (OnlyDiscoveredContribute /\ EveryDiscoveredIsScanned)

\* the two halves
OnlyDiscoveredFilesContribute ==
    result.status = "returned" => OnlyDiscoveredContribute
DiscoveredFilesAreScanned ==
    result.status = "returned" => EveryDiscoveredIsScanned

\* what holds: the contributors are the files of the program, discovered or
\* imported, whose name does not contain node_modules
ContributorsAreProgramFiles ==
    result.status = "returned" =>
       /\ Contributors \subseteq
             {programFiles[k].fileName : k \in 1..Len(programFiles)}
       /\ \A k \in 1..Len(programFiles) :
             ~InNodeModules(programFiles[k])
                => ScannedIntoSnapshot(programFiles[k])

=============================================================================
